---- MODULE Spec2Model ----
(***************************************************************************)
(* State-machine model of island_rl (mediterranean_wanderer):              *)
(*   time_system.py    TimeSystem.advance                                  *)
(*   weather_system.py WeatherSystem.update                                *)
(*   locations.py      LocationSystem (generation, discovery)              *)
(*   interaction.py    InteractionSystem.try_interact                      *)
(*   world.py          Island (generate, get_tile, get_biome)              *)
(*   player.py         Player.move, handle_input, add_to_inventory         *)
(*   inventory.py      Inventory.add_item, remove_item                     *)
(*   message_log.py    MessageLog.add_message, get_recent_messages         *)
(*   engine.py         Engine.__init__, _initialize_player, update         *)
(* Heights are integers in hundredths (0.5 is 50).  Each component has its *)
(* own specification; the variables of the other components stay put.      *)
(***************************************************************************)
EXTENDS Integers, Sequences, FiniteSets, TLC

VARIABLES
    \* TimeSystem
    minutes, day,
    \* WeatherSystem
    current_weather, next_weather, transition_minutes, minutes_until_change,
    \* observers of a weather run (what the tests measure)
    initial_weather, further, updates, changes,
    \* LocationSystem.locations: sequence of Location records
    locations,
    \* observers of the last LocationSystem / InteractionSystem call: the call,
    \* its return value, the location try_interact settled on, and per location
    \* the number of check_discoveries results that held it
    call, ret, chosen, returned,
    \* LocationSystem.terrain and the frame of generate_locations: its
    \* arguments, locals and position, and the passes of its outer loop so far
    terrain, pc, min_locations, max_locations, num_locations, adjusted_min,
    current_spacing, attempts, candidate_locations, best_locations, passes,
    \* the value of current_spacing in the pass that built best_locations
    best_spacing,
    \* Island: width, height, terrain, moisture, biomes
    island_width, island_height, island_terrain, moisture, biomes,
    \* the state of numpy's global generator (np.random)
    np_state,
    \* the noise function of tcod for this run, and per explicit seed the grids
    \* of the first generate(seed) and the number of such runs (it stops at 2)
    perlin, generated,
    \* Player: the record of its x and y
    player,
    \* Inventory: items (sequence of Item records) and capacity
    items, capacity,
    \* MessageLog: messages (sequence of Message records, oldest first) and
    \* max_messages
    messages, max_messages,
    \* observer of the MessageLog: every message handed to add_message
    added,
    \* Engine: show_inventory, _last_weather_desc, the position reached in
    \* __init__, and whether the attribute message_log has been assigned
    show_inventory, last_weather_desc, epc, has_log,
    \* observer of an Engine run: the number of key events handled
    events

timeVars == <<minutes, day>>
weatherVars == <<current_weather, next_weather, transition_minutes, minutes_until_change>>
weatherObs == <<initial_weather, further, updates, changes>>

locObs == <<call, ret, chosen, returned>>

genVars == <<terrain, pc, min_locations, max_locations, num_locations, adjusted_min,
             current_spacing, attempts, candidate_locations, best_locations, passes,
             best_spacing>>

worldVars == <<island_width, island_height, island_terrain, moisture, biomes, np_state>>
worldObs == <<perlin, generated>>
playerVars == <<player>>

islandVars == <<worldVars, worldObs, playerVars>>

inventoryVars == <<items, capacity>>
logVars == <<messages, max_messages, added>>
engineVars == <<show_inventory, last_weather_desc, epc, has_log>>
engineObs == <<events>>

playVars == <<inventoryVars, logVars, engineVars, engineObs>>

vars == <<timeVars, weatherVars, weatherObs, locations, locObs, genVars, islandVars,
          playVars>>

Min(a, b) == IF a <= b THEN a ELSE b
Max(a, b) == IF a >= b THEN a ELSE b

None == "None"

----------------------------------------------------------------------------
(* TimeSystem (time_system.py)                                             *)

minutes_per_turn == 1
minutes_per_day == 1440

\* cap on the day counter of a run
MaxDay == 3

TimeDefault == minutes = 360 /\ day = 1

\* advance() with the rollover test written as > (a plausible slip)
TimeAdvanceLate ==
    /\ day < MaxDay
    /\ LET m == minutes + minutes_per_turn
       IN  IF m > minutes_per_day
           THEN minutes' = 0 /\ day' = day + 1
           ELSE minutes' = m /\ day' = day

\* TimeSystem.advance
TimeAdvance ==
    /\ day < MaxDay
    /\ LET m == minutes + minutes_per_turn
       IN  IF m >= minutes_per_day
           THEN minutes' = 0 /\ day' = day + 1
           ELSE minutes' = m /\ day' = day

----------------------------------------------------------------------------
(* WeatherSystem (weather_system.py)                                       *)

WeatherType == {"SUNNY", "PARTLY_CLOUDY", "LIGHT_RAIN"}

MIN_WEATHER_DURATION == 180
MAX_WEATHER_DURATION == 480
TRANSITION_DURATION == 30

\* _get_next_duration drawing from 1 up (the lower limit dropped)
NextDurationsShort == 1 .. MAX_WEATHER_DURATION

\* _get_next_duration: random.randint(MIN, MAX), any value of the range
NextDurations == MIN_WEATHER_DURATION .. MAX_WEATHER_DURATION

\* _get_next_weather without the "w != self.current_weather" filter
NextWeathersAny(cur) == WeatherType

\* _get_next_weather: random.choice of the categories other than the current
NextWeathers(cur) == {w \in WeatherType : w # cur}

is_transitioning == next_weather # None

\* __post_init__ with the dataclass defaults
WeatherFresh ==
    /\ current_weather = "SUNNY"
    /\ next_weather = None
    /\ transition_minutes = 0
    /\ minutes_until_change \in NextDurations

\* update() with the transition counter started at 0 instead of 1
WeatherUpdateFromZero ==
    IF is_transitioning
    THEN IF transition_minutes + 1 >= TRANSITION_DURATION
         THEN /\ current_weather' = next_weather
              /\ next_weather' = None
              /\ transition_minutes' = 0
              /\ minutes_until_change' \in NextDurations
         ELSE /\ transition_minutes' = transition_minutes + 1
              /\ UNCHANGED <<current_weather, next_weather, minutes_until_change>>
    ELSE /\ minutes_until_change' = minutes_until_change - 1
         /\ IF minutes_until_change - 1 <= 0
            THEN /\ next_weather' \in NextWeathers(current_weather)
                 /\ transition_minutes' = 0
            ELSE UNCHANGED <<next_weather, transition_minutes>>
         /\ UNCHANGED current_weather

\* WeatherSystem.update
WeatherUpdate ==
    IF is_transitioning
    THEN IF transition_minutes + 1 >= TRANSITION_DURATION
         THEN /\ current_weather' = next_weather
              /\ next_weather' = None
              /\ transition_minutes' = 0
              /\ minutes_until_change' \in NextDurations
         ELSE /\ transition_minutes' = transition_minutes + 1
              /\ UNCHANGED <<current_weather, next_weather, minutes_until_change>>
    ELSE /\ minutes_until_change' = minutes_until_change - 1
         /\ IF minutes_until_change - 1 <= 0
            THEN /\ next_weather' \in NextWeathers(current_weather)
                 /\ transition_minutes' = 1
            ELSE UNCHANGED <<next_weather, transition_minutes>>
         /\ UNCHANGED current_weather

----------------------------------------------------------------------------
(* Location, LocationSystem queries (locations.py), InteractionSystem      *)
(* (interaction.py)                                                        *)

DISCOVERY_RADIUS == 3
interaction_radius == 1

Abs(n) == IF n < 0 THEN -n ELSE n

\* Location(x, y, type, name, description), discovered defaults to False
Location(x, y, type, name, description) ==
    [x |-> x, y |-> y, type |-> type, name |-> name,
     description |-> description, discovered |-> FALSE]

\* Location.discover
discover(loc) == [loc EXCEPT !.discovered = TRUE]

\* the test of check_discoveries read as a Manhattan distance
InDiscoveryRangeManhattan(loc, x, y) ==
    Abs(loc.x - x) + Abs(loc.y - y) <= DISCOVERY_RADIUS

\* the test of check_discoveries: both axes within DISCOVERY_RADIUS
InDiscoveryRange(loc, x, y) ==
    Abs(loc.x - x) <= DISCOVERY_RADIUS /\ Abs(loc.y - y) <= DISCOVERY_RADIUS

\* the loop of check_discoveries from index i on; acc is (locations so far,
\* indices appended to discovered so far)
RECURSIVE CheckLoopVisible(_, _, _, _)
RECURSIVE CheckLoopAll(_, _, _, _)
RECURSIVE CheckLoop(_, _, _, _)

\* the loop with the flag set to "in range now" for every location
CheckLoopVisible(i, x, y, acc) ==
    IF i > Len(acc.locs) THEN acc
    ELSE LET loc == acc.locs[i]
             in == InDiscoveryRange(loc, x, y)
         IN  CheckLoopVisible(i + 1, x, y,
                 [locs |-> [acc.locs EXCEPT ![i].discovered = in],
                  discovered |-> IF in /\ ~loc.discovered
                                 THEN Append(acc.discovered, i)
                                 ELSE acc.discovered])

\* the loop without the "if not loc.discovered" test
CheckLoopAll(i, x, y, acc) ==
    IF i > Len(acc.locs) THEN acc
    ELSE LET loc == acc.locs[i]
         IN  IF InDiscoveryRange(loc, x, y)
             THEN CheckLoopAll(i + 1, x, y,
                      [locs |-> [acc.locs EXCEPT ![i] = discover(loc)],
                       discovered |-> Append(acc.discovered, i)])
             ELSE CheckLoopAll(i + 1, x, y, acc)

CheckLoop(i, x, y, acc) ==
    IF i > Len(acc.locs) THEN acc
    ELSE LET loc == acc.locs[i]
         IN  IF InDiscoveryRange(loc, x, y) /\ ~loc.discovered
             THEN CheckLoop(i + 1, x, y,
                      [locs |-> [acc.locs EXCEPT ![i] = discover(loc)],
                       discovered |-> Append(acc.discovered, i)])
             ELSE CheckLoop(i + 1, x, y, acc)

\* get_nearby_locations measured per axis (Chebyshev) instead of Manhattan
get_nearby_locations_axis(locs, x, y, radius) ==
    IF radius <= 0 THEN <<>>
    ELSE SelectSeq([i \in 1 .. Len(locs) |-> i],
                   LAMBDA i : Abs(x - locs[i].x) <= radius /\ Abs(y - locs[i].y) <= radius)

\* get_nearby_locations: indices, in storage order, within Manhattan radius
get_nearby_locations(locs, x, y, radius) ==
    IF radius <= 0 THEN <<>>
    ELSE SelectSeq([i \in 1 .. Len(locs) |-> i],
                   LAMBDA i : Abs(x - locs[i].x) + Abs(y - locs[i].y) <= radius)

\* InteractionResult; message is the f-string as its pieces
InteractionResult(success, message, details) ==
    [success |-> success, message |-> message, details |-> details]

Details(loc) == [name |-> loc.name, type |-> loc.type, description |-> loc.description]

NothingMessage == <<"Nothing interesting to interact with here.">>
DiscoveredMessage(name) == <<"Discovered ", name, "!">>
ExaminingMessage(name) == <<"Examining ", name, "...">>

\* what try_interact does once it has settled on locations[i]
Outcome(locs, i, isNew) ==
    [locs |-> IF isNew THEN [locs EXCEPT ![i] = discover(locs[i])] ELSE locs,
     chosen |-> i,
     result |-> InteractionResult(TRUE,
                    IF isNew THEN DiscoveredMessage(locs[i].name)
                             ELSE ExaminingMessage(locs[i].name),
                    Details(locs[i]))]

\* try_interact taking nearby[0] whatever its flag when there is no exact match
try_interact_first(locs, player_x, player_y) ==
    LET nearby == get_nearby_locations(locs, player_x, player_y, interaction_radius)
        exact_matches == SelectSeq(nearby,
            LAMBDA i : locs[i].x = player_x /\ locs[i].y = player_y)
    IN  IF nearby = <<>>
        THEN [locs |-> locs, chosen |-> 0,
              result |-> InteractionResult(FALSE, NothingMessage, None)]
        ELSE IF exact_matches # <<>>
        THEN Outcome(locs, exact_matches[1], ~locs[exact_matches[1]].discovered)
        ELSE Outcome(locs, nearby[1], ~locs[nearby[1]].discovered)

\* InteractionSystem.try_interact
try_interact(locs, player_x, player_y) ==
    LET nearby == get_nearby_locations(locs, player_x, player_y, interaction_radius)
        exact_matches == SelectSeq(nearby,
            LAMBDA i : locs[i].x = player_x /\ locs[i].y = player_y)
        undiscovered == SelectSeq(nearby, LAMBDA i : ~locs[i].discovered)
    IN  IF nearby = <<>>
        THEN [locs |-> locs, chosen |-> 0,
              result |-> InteractionResult(FALSE, NothingMessage, None)]
        ELSE IF exact_matches # <<>>
        THEN Outcome(locs, exact_matches[1], ~locs[exact_matches[1]].discovered)
        ELSE IF undiscovered # <<>>
        THEN Outcome(locs, undiscovered[1], TRUE)
        ELSE Outcome(locs, nearby[1], FALSE)

\* bounds of the discovery/interaction runs: locations per list, largest
\* player coordinate
NumLocs == 2
PlayerMax == 4

PlayerCoords == 0 .. PlayerMax

\* cells of the locations of a run: sharing a cell, adjacent, diagonal, two apart
LocCells == {<<0, 0>>, <<1, 0>>, <<1, 1>>, <<2, 0>>}

\* LocationSystem.check_discoveries(x, y); returned counts, per location, the
\* calls that returned it (it stops counting at 2)
CheckDiscoveries(x, y) ==
    LET r == CheckLoop(1, x, y, [locs |-> locations, discovered |-> <<>>])
    IN  /\ locations' = r.locs
        /\ ret' = r.discovered
        /\ chosen' = 0
        /\ returned' = [i \in DOMAIN returned |->
                           IF \E k \in 1 .. Len(r.discovered) : r.discovered[k] = i
                           THEN Min(returned[i] + 1, 2) ELSE returned[i]]
        /\ call' = [op |-> "check_discoveries", x |-> x, y |-> y]
        /\ UNCHANGED <<timeVars, weatherVars, weatherObs, genVars, islandVars, playVars>>

\* InteractionSystem.try_interact(player_x, player_y)
TryInteract(x, y) ==
    LET r == try_interact(locations, x, y)
    IN  /\ locations' = r.locs
        /\ ret' = r.result
        /\ chosen' = r.chosen
        /\ call' = [op |-> "try_interact", x |-> x, y |-> y]
        /\ UNCHANGED <<returned, timeVars, weatherVars, weatherObs, genVars, islandVars, playVars>>

NoCall == [op |-> None, x |-> 0, y |-> 0]

LocObsInit(n) ==
    /\ call = NoCall
    /\ ret = None
    /\ chosen = 0
    /\ returned = [i \in 1 .. n |-> 0]

NoLocations == locations = <<>> /\ LocObsInit(0)

\* names and descriptions of the BEACH pools, one per list position
LocNames == <<"Golden Sands", "Shell Cove", "Crystal Bay", "Pebble Beach",
              "Hidden Lagoon", "Dolphin Shore">>
BeachDescription == "Crystal clear waters lap at golden sand."

----------------------------------------------------------------------------
(* LocationSystem.generate_locations (locations.py)                        *)

MIN_SPACING == 10
WATER_THRESHOLD == 50

LocationTypes == {"VILLAGE", "RUINS", "VIEWPOINT", "BEACH", "GROVE"}

\* LOCATION_PREFERENCES: inclusive height range of each type
LOCATION_PREFERENCES ==
    [BEACH |-> <<50, 60>>, VILLAGE |-> <<60, 70>>, GROVE |-> <<65, 75>>,
     VIEWPOINT |-> <<70, 85>>, RUINS |-> <<60, 80>>]

\* name pools
name_lists ==
    [VILLAGE |-> <<"Olive Grove Village", "Fisher's Rest", "Goat Path Town",
                   "Harbor View", "Vineyard Settlement", "Shepherd's Haven">>,
     RUINS |-> <<"Temple of Poseidon", "Ancient Agora", "Forgotten Shrine",
                 "Old Amphitheater", "Lost Library", "Marble Columns">>,
     VIEWPOINT |-> <<"Eagle's Perch", "Sunset Point", "Azure Overlook",
                     "Cloud Watch", "Sea Vista", "Island Peak">>,
     BEACH |-> LocNames,
     GROVE |-> <<"Ancient Olive Grove", "Citrus Garden", "Pine Haven",
                 "Fig Tree Grove", "Cypress Walk", "Laurel Woods">>]

\* description pools
descriptions ==
    [VILLAGE |-> <<"A peaceful village nestled among olive trees.",
                   "A small settlement with white-washed houses.",
                   "A quiet fishing village by the coast.">>,
     RUINS |-> <<"Ancient marble columns reach skyward.",
                 "Weathered stone walls tell tales of the past.",
                 "Moss-covered ruins of an ancient civilization.">>,
     VIEWPOINT |-> <<"A breathtaking view of the island and sea.",
                     "The perfect spot to watch the sunset.",
                     "A panoramic vista of the surrounding waters.">>,
     BEACH |-> <<BeachDescription,
                 "A secluded cove with gentle waves.",
                 "A pristine beach with scattered seashells.">>,
     GROVE |-> <<"Ancient olive trees provide cool shade.",
                 "A peaceful grove filled with birdsong.",
                 "Fragrant citrus trees line winding paths.">>]

\* terrain.shape[1], terrain.shape[0] of the runs
GridW == 8
GridH == 7

Cells == (0 .. (GridW - 1)) \X (0 .. (GridH - 1))

\* _choose_location_type testing only "min_height <= height"
valid_types_open(height) ==
    {t \in LocationTypes : LOCATION_PREFERENCES[t][1] <= height}

\* _choose_location_type: the types random.choice draws from (none: None)
valid_types(height) ==
    {t \in LocationTypes :
        LOCATION_PREFERENCES[t][1] <= height /\ height <= LOCATION_PREFERENCES[t][2]}

\* _generate_name: random.choice(name_lists[loc_type])
GeneratedNames(t) == {name_lists[t][k] : k \in DOMAIN name_lists[t]}

\* _generate_description: random.choice(descriptions[loc_type])
GeneratedDescriptions(t) == {descriptions[t][k] : k \in DOMAIN descriptions[t]}

\* np.sum(terrain >= WATER_THRESHOLD) / np.where(terrain >= WATER_THRESHOLD)
ValidCells(t) == {c \in Cells : t[c] >= WATER_THRESHOLD}

\* the distance test with np.sqrt dropped: the squared distance against spacing
TooCloseSquared(x, y, loc, spacing) ==
    (x - loc.x) * (x - loc.x) + (y - loc.y) * (y - loc.y) < spacing

\* np.sqrt(dx ** 2 + dy ** 2) < spacing, on the squares
TooClose(x, y, loc, spacing) ==
    (x - loc.x) * (x - loc.x) + (y - loc.y) * (y - loc.y) < spacing * spacing

\* trials per pass: max_attempts is 1000 in the source; the runs use a small
\* number, the loop compares attempts with it and nothing else
max_attempts == 2

\* cap on the passes of the outer loop followed in a run
MaxPasses == 4

\* the (min_locations, max_locations) requested: none, one, two, a range, and
\* a minimum above the maximum
Requests == {<<0, 0>>, <<1, 1>>, <<2, 2>>, <<0, 2>>, <<1, 2>>, <<2, 1>>}

\* the terrain of a run that never reads it
NoTerrain == <<>>

GenIdle(t) ==
    /\ terrain = t
    /\ pc = "idle"
    /\ min_locations = 0 /\ max_locations = 0
    /\ num_locations = 0 /\ adjusted_min = 0
    /\ current_spacing = MIN_SPACING
    /\ attempts = 0
    /\ candidate_locations = <<>> /\ best_locations = <<>>
    /\ passes = 0
    /\ best_spacing = MIN_SPACING

\* generate_locations returning from the zero-valid-cells exit without
\* assigning self.locations
GenerateLocationsKeep(min, max) ==
    /\ pc = "idle"
    /\ min_locations' = min /\ max_locations' = max
    /\ LET valid == ValidCells(terrain)
           valid_tiles == Cardinality(valid)
           max_possible == Max(1, valid_tiles \div ((MIN_SPACING \div 2) * (MIN_SPACING \div 2)))
           adjusted_max == Min(max, max_possible)
           normal ==
               /\ adjusted_min' = Min(min, adjusted_max)
               /\ num_locations' \in Min(min, adjusted_max) .. adjusted_max
               /\ best_locations' = <<>>
               /\ current_spacing' = MIN_SPACING
               /\ pc' = "while"
               /\ UNCHANGED locations
       IN  IF valid_tiles = 0
           THEN /\ UNCHANGED locations
                /\ pc' = "done"
                /\ UNCHANGED <<num_locations, adjusted_min, current_spacing, best_locations>>
           ELSE IF valid_tiles < 10
           THEN \E c \in valid :
                   IF valid_types(terrain[c]) # {}
                   THEN /\ \E t \in valid_types(terrain[c]) :
                           \E n \in GeneratedNames(t), d \in GeneratedDescriptions(t) :
                              locations' = <<Location(c[1], c[2], t, n, d)>>
                        /\ pc' = "done"
                        /\ UNCHANGED <<num_locations, adjusted_min, current_spacing,
                                       best_locations>>
                   ELSE normal
           ELSE normal
    /\ UNCHANGED <<terrain, attempts, candidate_locations, passes, best_spacing>>
    /\ UNCHANGED <<timeVars, weatherVars, weatherObs, locObs, islandVars, playVars>>

\* generate_locations up to the outer loop (lines 107-147)
GenerateLocations(min, max) ==
    /\ pc = "idle"
    /\ min_locations' = min /\ max_locations' = max
    /\ LET valid == ValidCells(terrain)
           valid_tiles == Cardinality(valid)
           max_possible == Max(1, valid_tiles \div ((MIN_SPACING \div 2) * (MIN_SPACING \div 2)))
           adjusted_max == Min(max, max_possible)
           normal ==
               /\ adjusted_min' = Min(min, adjusted_max)
               /\ num_locations' \in Min(min, adjusted_max) .. adjusted_max
               /\ best_locations' = <<>>
               /\ current_spacing' = MIN_SPACING
               /\ pc' = "while"
               /\ UNCHANGED locations
       IN  IF valid_tiles = 0
           THEN /\ locations' = <<>>
                /\ pc' = "done"
                /\ UNCHANGED <<num_locations, adjusted_min, current_spacing, best_locations>>
           ELSE IF valid_tiles < 10
           THEN \E c \in valid :
                   IF valid_types(terrain[c]) # {}
                   THEN /\ \E t \in valid_types(terrain[c]) :
                           \E n \in GeneratedNames(t), d \in GeneratedDescriptions(t) :
                              locations' = <<Location(c[1], c[2], t, n, d)>>
                        /\ pc' = "done"
                        /\ UNCHANGED <<num_locations, adjusted_min, current_spacing,
                                       best_locations>>
                   ELSE normal
           ELSE normal
    /\ UNCHANGED <<terrain, attempts, candidate_locations, passes, best_spacing>>
    /\ UNCHANGED <<timeVars, weatherVars, weatherObs, locObs, islandVars, playVars>>

\* the test of "while current_spacing >= 2" and the start of a pass
While ==
    /\ pc = "while"
    /\ passes < MaxPasses
    /\ IF current_spacing >= 2
       THEN /\ attempts' = 0
            /\ candidate_locations' = <<>>
            /\ passes' = passes + 1
            /\ pc' = "attempt"
       ELSE /\ pc' = "commit"
            /\ UNCHANGED <<attempts, candidate_locations, passes>>
    /\ UNCHANGED <<terrain, min_locations, max_locations, num_locations, adjusted_min,
                   current_spacing, best_locations, best_spacing, locations>>
    /\ UNCHANGED <<timeVars, weatherVars, weatherObs, locObs, islandVars, playVars>>

\* the three "continue" tests of a trial at (x, y): water, too close to a
\* candidate, no type for the height
Skipped(x, y) ==
    \/ terrain[<<x, y>>] < WATER_THRESHOLD
    \/ \E k \in 1 .. Len(candidate_locations) :
          TooClose(x, y, candidate_locations[k], current_spacing)
    \/ valid_types(terrain[<<x, y>>]) = {}

\* one trial of the inner loop (lines 154-189): the position drawn is skipped,
\* or it becomes a candidate
Attempt ==
    /\ pc = "attempt"
    /\ Len(candidate_locations) < num_locations /\ attempts < max_attempts
    /\ attempts' = attempts + 1
    /\ \/ /\ \E x \in 0 .. (GridW - 1), y \in 0 .. (GridH - 1) : Skipped(x, y)
          /\ UNCHANGED candidate_locations
       \/ \E x \in 0 .. (GridW - 1), y \in 0 .. (GridH - 1) :
             /\ ~Skipped(x, y)
             /\ \E t \in valid_types(terrain[<<x, y>>]) :
                   \E n \in GeneratedNames(t), d \in GeneratedDescriptions(t) :
                      candidate_locations' =
                          Append(candidate_locations, Location(x, y, t, n, d))
    /\ UNCHANGED <<terrain, pc, min_locations, max_locations, num_locations,
                   adjusted_min, current_spacing, best_locations, passes, best_spacing,
                   locations>>
    /\ UNCHANGED <<timeVars, weatherVars, weatherObs, locObs, islandVars, playVars>>

\* the end of a pass with the break taken whatever was found
EndPassBreak ==
    /\ pc = "attempt"
    /\ ~(Len(candidate_locations) < num_locations /\ attempts < max_attempts)
    /\ best_locations' = IF Len(candidate_locations) > Len(best_locations)
                         THEN candidate_locations ELSE best_locations
    /\ best_spacing' = IF Len(candidate_locations) > Len(best_locations)
                       THEN current_spacing ELSE best_spacing
    /\ pc' = "commit"
    /\ UNCHANGED current_spacing
    /\ UNCHANGED <<terrain, min_locations, max_locations, num_locations, adjusted_min,
                   attempts, candidate_locations, passes, locations>>
    /\ UNCHANGED <<timeVars, weatherVars, weatherObs, locObs, islandVars, playVars>>

\* the end of a pass (lines 191-200)
EndPass ==
    /\ pc = "attempt"
    /\ ~(Len(candidate_locations) < num_locations /\ attempts < max_attempts)
    /\ LET best == IF Len(candidate_locations) > Len(best_locations)
                   THEN candidate_locations ELSE best_locations
       IN  /\ best_locations' = best
           /\ best_spacing' = IF Len(candidate_locations) > Len(best_locations)
                              THEN current_spacing ELSE best_spacing
           /\ IF Len(best) >= adjusted_min
              THEN pc' = "commit" /\ UNCHANGED current_spacing
              ELSE /\ current_spacing' = Max(2, current_spacing \div 2)
                   /\ pc' = "while"
    /\ UNCHANGED <<terrain, min_locations, max_locations, num_locations, adjusted_min,
                   attempts, candidate_locations, passes, locations>>
    /\ UNCHANGED <<timeVars, weatherVars, weatherObs, locObs, islandVars, playVars>>

\* after the loop (lines 202-205)
Commit ==
    /\ pc = "commit"
    /\ locations' = best_locations
    /\ pc' = "done"
    /\ UNCHANGED <<terrain, min_locations, max_locations, num_locations, adjusted_min,
                   current_spacing, attempts, candidate_locations, best_locations, passes,
                   best_spacing>>
    /\ UNCHANGED <<timeVars, weatherVars, weatherObs, locObs, islandVars, playVars>>

\* terrains of the runs
FlatTerrain(h) == [c \in Cells |-> h]
Patch(base, S, h) == [c \in Cells |-> IF c \in S THEN h ELSE base]

\* water with one beach cell and, next to it, one cell that fits no type
MixedTerrain ==
    [c \in Cells |-> IF c = <<1, 1>> THEN 55 ELSE IF c = <<2, 1>> THEN 95 ELSE 30]

Terrains ==
    {FlatTerrain(30),                                  \* all water
     FlatTerrain(95),                                  \* land that fits no type
     Patch(30, {<<1, 1>>}, 55),                        \* one beach cell
     Patch(30, {<<1, 1>>}, 95),                        \* one cell that fits no type
     Patch(30, {<<0, 0>>, <<1, 0>>, <<2, 0>>}, 70),    \* three cells, four types
     Patch(95, {<<0, 0>>, <<3, 0>>}, 55),              \* land, two beach cells
     MixedTerrain}

\* self.locations before the call: the empty list of __init__, or a list
\* left by an earlier call or assignment
HeldLists == {<<>>, <<Location(0, 0, "BEACH", LocNames[1], BeachDescription)>>}

----------------------------------------------------------------------------
(* Island (world.py)                                                       *)
(* Heights and moistures are hundredths, as the heights of LocationSystem. *)

\* Optional[NDArray]: None, or the array as a function of the cell <<x, y>>
NoGrid == [is_none |-> TRUE, at |-> <<>>]
Grid(f) == [is_none |-> FALSE, at |-> f]

\* the cells of an array of shape (h, w); none when a dimension is 0
IslandCells(w, h) == (0 .. (w - 1)) \X (0 .. (h - 1))

\* position of a cell in row-major order (y outer, x inner)
CellIndex(c, w) == c[2] * w + c[1]

\* how a call ended: with a return value, or with an exception raised
Returned(v) == [raised |-> None, value |-> v]
Raised(e) == [raised |-> e, value |-> None]

\* Island.__init__
IslandNew(w, h) ==
    /\ island_width = w /\ island_height = h
    /\ island_terrain = NoGrid /\ moisture = NoGrid /\ biomes = NoGrid

\* np.power(v, 0.7), np.power(v, 0.8), np.power(v, 1.2) and dist ** 1.5 (on
\* dist squared: v ** 0.75) for v = 0.00 .. 1.00, rounded to hundredths
Pow07 ==
    <<0, 4, 6, 9, 11, 12, 14, 16, 17, 19, 20, 21, 23, 24, 25,
      27, 28, 29, 30, 31, 32, 34, 35, 36, 37, 38, 39, 40, 41, 42,
      43, 44, 45, 46, 47, 48, 49, 50, 51, 52, 53, 54, 54, 55, 56,
      57, 58, 59, 60, 61, 62, 62, 63, 64, 65, 66, 67, 67, 68, 69,
      70, 71, 72, 72, 73, 74, 75, 76, 76, 77, 78, 79, 79, 80, 81,
      82, 83, 83, 84, 85, 86, 86, 87, 88, 89, 89, 90, 91, 91, 92,
      93, 94, 94, 95, 96, 96, 97, 98, 99, 99, 100>>

Pow08 ==
    <<0, 3, 4, 6, 8, 9, 11, 12, 13, 15, 16, 17, 18, 20, 21,
      22, 23, 24, 25, 26, 28, 29, 30, 31, 32, 33, 34, 35, 36, 37,
      38, 39, 40, 41, 42, 43, 44, 45, 46, 47, 48, 49, 50, 51, 52,
      53, 54, 55, 56, 57, 57, 58, 59, 60, 61, 62, 63, 64, 65, 66,
      66, 67, 68, 69, 70, 71, 72, 73, 73, 74, 75, 76, 77, 78, 79,
      79, 80, 81, 82, 83, 84, 84, 85, 86, 87, 88, 89, 89, 90, 91,
      92, 93, 94, 94, 95, 96, 97, 98, 98, 99, 100>>

Pow12 ==
    <<0, 0, 1, 1, 2, 3, 3, 4, 5, 6, 6, 7, 8, 9, 9,
      10, 11, 12, 13, 14, 14, 15, 16, 17, 18, 19, 20, 21, 22, 23,
      24, 25, 25, 26, 27, 28, 29, 30, 31, 32, 33, 34, 35, 36, 37,
      38, 39, 40, 41, 42, 44, 45, 46, 47, 48, 49, 50, 51, 52, 53,
      54, 55, 56, 57, 59, 60, 61, 62, 63, 64, 65, 66, 67, 69, 70,
      71, 72, 73, 74, 75, 77, 78, 79, 80, 81, 82, 83, 85, 86, 87,
      88, 89, 90, 92, 93, 94, 95, 96, 98, 99, 100>>

Pow075 ==
    <<0, 3, 5, 7, 9, 11, 12, 14, 15, 16, 18, 19, 20, 22, 23,
      24, 25, 26, 28, 29, 30, 31, 32, 33, 34, 35, 36, 37, 38, 40,
      41, 42, 43, 44, 45, 46, 46, 47, 48, 49, 50, 51, 52, 53, 54,
      55, 56, 57, 58, 59, 59, 60, 61, 62, 63, 64, 65, 66, 66, 67,
      68, 69, 70, 71, 72, 72, 73, 74, 75, 76, 77, 77, 78, 79, 80,
      81, 81, 82, 83, 84, 85, 85, 86, 87, 88, 89, 89, 90, 91, 92,
      92, 93, 94, 95, 95, 96, 97, 98, 98, 99, 100>>

\* np.exp(-5.0 * np.abs(t - 0.3)) for t = 0.00 .. 1.00, rounded to hundredths
Coastal ==
    <<22, 23, 25, 26, 27, 29, 30, 32, 33, 35, 37, 39, 41, 43, 45,
      47, 50, 52, 55, 58, 61, 64, 67, 70, 74, 78, 82, 86, 90, 95,
      100, 95, 90, 86, 82, 78, 74, 70, 67, 64, 61, 58, 55, 52, 50,
      47, 45, 43, 41, 39, 37, 35, 33, 32, 30, 29, 27, 26, 25, 23,
      22, 21, 20, 19, 18, 17, 17, 16, 15, 14, 14, 13, 12, 12, 11,
      11, 10, 10, 9, 9, 8, 8, 7, 7, 7, 6, 6, 6, 6, 5,
      5, 5, 5, 4, 4, 4, 4, 4, 3, 3, 3>>

\* largest explicit seed of a run
MaxSeed == 1
Seeds == 0 .. MaxSeed

\* generate(seed=None)
NoSeed == -1

\* number of states of the model of numpy's generator
RngStates == 16

\* np.random.seed(seed) leaving the generator as it was
SeedStateKept(seed, s) == s

\* np.random.seed(seed): the state depends on the seed only
SeedState(seed, s) == seed % RngStates

\* one draw moves the generator on
NextState(s) == (5 * s + 3) % RngStates

\* np.random.random() in the state s, in hundredths
RandomValue(s) == (37 * s) % 100

\* np.random.randint(0, 1000000) in the state s, as a seed of Seeds
RandInt(s) == s % (MaxSeed + 1)

\* the generator after k draws
RECURSIVE Advance(_, _)
Advance(s, k) == IF k = 0 THEN s ELSE Advance(NextState(s), k - 1)

\* values of the noise, in hundredths of [-1, 1]
NoiseValues == <<-100, -60, -20, 20, 60, 100>>

\* the noise functions of the runs: tcod is outside the repository; its noise
\* is a fixed function of the seed and the sample point
PerlinFamily == [a : {1, 5}, b : 0 .. (Len(NoiseValues) - 1)]

\* _create_base_noise(seed).get_point at the k-th sample point of an island of
\* n cells (points 0 .. n-1 are those of the height map, n .. 2n-1 those of the
\* moisture map)
get_point(seed, k, n) ==
    NoiseValues[((perlin.a * (seed * 2 * n + k) + perlin.b) % Len(NoiseValues)) + 1]

\* (map + 1.0) / 2.0
Normalize(v) == (v + 100) \div 2

Clip(v, lo, hi) == Max(lo, Min(v, hi))

\* np.minimum(height * 1.5, 1.0)
Peak(v) == Min((v * 3) \div 2, 100)

\* _apply_island_mask: mask * 0.8 + 0.2 at the cell c, with
\* mask = 1 - clip(dist ** 1.5, 0, 1) and dist the distance from the centre
MaskFactor(c, w, h) ==
    LET dist2 == (100 * ((2 * c[1] - w) * (2 * c[1] - w) * h * h
                         + (2 * c[2] - h) * (2 * c[2] - h) * w * w)) \div (w * w * h * h)
        mask == 100 - Clip(Pow075[Min(dist2, 100) + 1], 0, 100)
    IN  (mask * 80) \div 100 + 20

\* _generate_height_map, _apply_island_mask and np.clip (lines 212-214); s is
\* the generator before the draws of peak_mask
generate_height_map(seed, s, w, h) ==
    [c \in IslandCells(w, h) |->
        LET v == Pow07[Normalize(get_point(seed, CellIndex(c, w), w * h)) + 1]
            peaked == IF RandomValue(Advance(s, CellIndex(c, w))) < 2 THEN Peak(v) ELSE v
            masked == (peaked * MaskFactor(c, w, h)) \div 100
        IN  Clip(Pow08[masked + 1], 0, 100)]

\* the blend with the weight 0.7 of the noise dropped
CoastalBlendUnweighted(m, t) == m + (30 * Coastal[t + 1]) \div 100

\* 0.7 * moisture_map + 0.3 * coastal_influence
CoastalBlend(m, t) == (70 * m + 30 * Coastal[t + 1]) \div 100

\* _generate_moisture_map; terr is self.terrain, set before the call
generate_moisture_map(seed, w, h, terr) ==
    [c \in IslandCells(w, h) |->
        CoastalBlend(Pow12[Normalize(get_point(seed, w * h + CellIndex(c, w), w * h)) + 1],
                     terr[c])]

BiomeType == {"DEEP_WATER", "SHALLOW_WATER", "BEACH", "OLIVE_GROVE", "PINE_FOREST",
              "ROCKY_CLIFF", "RUINS"}

\* the biome of a cell before the ruins draw (lines 166-190)
BaseBiome(height, moist) ==
    IF height < 20 THEN "DEEP_WATER"
    ELSE IF height < 30 THEN "SHALLOW_WATER"
    ELSE IF height < 40 THEN "BEACH"
    ELSE IF height > 75 THEN "ROCKY_CLIFF"
    ELSE IF moist > 60 THEN (IF height > 50 THEN "PINE_FOREST" ELSE "OLIVE_GROVE")
    ELSE IF moist > 40 THEN (IF height > 50 THEN "PINE_FOREST" ELSE "OLIVE_GROVE")
    ELSE (IF height > 45 THEN "PINE_FOREST" ELSE "OLIVE_GROVE")

\* the height test of the ruins draw without its upper limit
ruins_suitable_any(height) == height >= 40

\* the height test of the ruins draw (line 193), reached on land only
ruins_suitable(height) == height >= 40 /\ 40 < height /\ height < 70

\* the loop of _determine_biomes from the i-th cell on; the ruins draw is made
\* on suitable cells only and moves the generator on.  acc is the biomes so
\* far, in row-major order
RECURSIVE DetermineLoop(_, _, _, _, _, _)
DetermineLoop(i, w, h, terr, moist, acc) ==
    IF i = w * h THEN acc
    ELSE LET c == <<i % w, i \div w>>
             base == BaseBiome(terr[c], moist[c])
         IN  IF ruins_suitable(terr[c])
             THEN DetermineLoop(i + 1, w, h, terr, moist,
                      [seq |-> Append(acc.seq, IF RandomValue(acc.state) < 2
                                               THEN "RUINS" ELSE base),
                       state |-> NextState(acc.state)])
             ELSE DetermineLoop(i + 1, w, h, terr, moist,
                      [seq |-> Append(acc.seq, base), state |-> acc.state])

\* what generate computes from the seed in use and the generator s after the
\* seeding: the three arrays and the generator at the end
Generated(seed, s, w, h) ==
    LET terr == generate_height_map(seed, s, w, h)
        moist == generate_moisture_map(seed + 1, w, h, terr)
        r == DetermineLoop(0, w, h, terr, moist,
                           [seq |-> <<>>, state |-> Advance(s, w * h)])
    IN  [terrain |-> terr, moisture |-> moist,
         biomes |-> [c \in IslandCells(w, h) |-> r.seq[CellIndex(c, w) + 1]],
         state |-> r.state]

\* no explicit seed has been used yet
NotGenerated == [s \in Seeds |-> [runs |-> 0, terrain |-> <<>>, moisture |-> <<>>]]

\* Island.generate(seed); seed = NoSeed draws the seed from np.random.  A
\* negative dimension makes np.zeros raise ValueError before any array is kept
Generate(seed) ==
    LET used == IF seed = NoSeed THEN RandInt(np_state) ELSE seed
        s == IF seed = NoSeed THEN NextState(np_state) ELSE SeedState(seed, np_state)
        w == island_width
        h == island_height
    IN  /\ call' = [op |-> "generate", seed |-> seed]
        /\ IF w < 0 \/ h < 0
           THEN /\ ret' = Raised("ValueError")
                /\ np_state' = s
                /\ UNCHANGED <<island_terrain, moisture, biomes, generated>>
           ELSE LET g == Generated(used, s, w, h)
                IN  /\ island_terrain' = Grid(g.terrain)
                    /\ moisture' = Grid(g.moisture)
                    /\ biomes' = Grid(g.biomes)
                    /\ np_state' = g.state
                    /\ ret' = Returned(None)
                    /\ generated' =
                         IF seed = NoSeed THEN generated
                         ELSE [generated EXCEPT ![seed] =
                                 IF @.runs = 0
                                 THEN [runs |-> 1, terrain |-> g.terrain,
                                       moisture |-> g.moisture]
                                 ELSE [@ EXCEPT !.runs = 2]]
        /\ UNCHANGED <<island_width, island_height, perlin, playerVars>>
        /\ UNCHANGED <<chosen, returned, locations, timeVars, weatherVars, weatherObs,
                       genVars, playVars>>

\* a draw from np.random by other code (engine.py, _generate_item_for_location)
NumpyDraw ==
    /\ np_state' = NextState(np_state)
    /\ call' = [op |-> "np.random.random"]
    /\ ret' = Returned(RandomValue(np_state))
    /\ UNCHANGED <<island_width, island_height, island_terrain, moisture, biomes,
                   worldObs, playerVars>>
    /\ UNCHANGED <<chosen, returned, locations, timeVars, weatherVars, weatherObs,
                   genVars, playVars>>

\* numpy's a[i] on an axis of length n: a negative index counts from the end,
\* an index outside -n .. n-1 raises IndexError
AxisIndex(i, n) ==
    IF 0 <= i /\ i < n THEN i
    ELSE IF -n <= i /\ i < 0 THEN i + n
    ELSE "IndexError"

\* array[y, x] on a grid of shape (h, w)
Subscript(grid, x, y, w, h) ==
    IF (x >= -w /\ x < w) /\ (y >= -h /\ y < h)
    THEN Returned(grid.at[<<AxisIndex(x, w), AxisIndex(y, h)>>])
    ELSE Raised("IndexError")

\* Island.get_tile
get_tile(x, y) ==
    IF island_terrain.is_none THEN Returned(0)
    ELSE Subscript(island_terrain, x, y, island_width, island_height)

\* Island.get_biome
get_biome(x, y) ==
    IF biomes.is_none THEN Raised("ValueError")
    ELSE Subscript(biomes, x, y, island_width, island_height)

\* largest coordinate asked for; the smallest is -(QueryMax + 1)
QueryMax == 3
QueryCoords == (-(QueryMax + 1)) .. QueryMax

GetTile(x, y) ==
    /\ call' = [op |-> "get_tile", x |-> x, y |-> y]
    /\ ret' = get_tile(x, y)
    /\ UNCHANGED <<chosen, returned, locations, timeVars, weatherVars, weatherObs,
                   genVars, islandVars, playVars>>

GetBiome(x, y) ==
    /\ call' = [op |-> "get_biome", x |-> x, y |-> y]
    /\ ret' = get_biome(x, y)
    /\ UNCHANGED <<chosen, returned, locations, timeVars, weatherVars, weatherObs,
                   genVars, islandVars, playVars>>

----------------------------------------------------------------------------
(* Player (player.py)                                                      *)

\* the boundary test of move without its lower limits
InBoundsUpper(x, y, w, h) == x < w /\ y < h

\* 0 <= new_x < island.width and 0 <= new_y < island.height
InBounds(x, y, w, h) == 0 <= x /\ x < w /\ 0 <= y /\ y < h

\* Player.move: the player afterwards and how the call ended (an exception of
\* get_tile leaves move before the position is written)
move(p, dx, dy) ==
    LET new_x == p.x + dx
        new_y == p.y + dy
        terrain_height == get_tile(new_x, new_y)
    IN  IF ~InBounds(new_x, new_y, island_width, island_height)
        THEN [player |-> p, result |-> Returned(FALSE)]
        ELSE IF terrain_height.raised # None
        THEN [player |-> p, result |-> terrain_height]
        ELSE IF terrain_height.value < 20
        THEN [player |-> p, result |-> Returned(FALSE)]
        ELSE [player |-> [x |-> new_x, y |-> new_y], result |-> Returned(TRUE)]

\* largest step of a move on an axis
DeltaMax == 2
Deltas == (-DeltaMax) .. DeltaMax

Move(dx, dy) ==
    LET r == move(player, dx, dy)
    IN  /\ player' = r.player
        /\ call' = [op |-> "move", x |-> dx, y |-> dy]
        /\ ret' = r.result
        /\ UNCHANGED <<worldVars, worldObs>>
        /\ UNCHANGED <<chosen, returned, locations, timeVars, weatherVars, weatherObs,
                       genVars, playVars>>

\* the island of the player tests: land at 0.6, a cell at 0.2 and a cell of
\* deep water
TestTerrain == [c \in IslandCells(3, 3) |->
                  IF c = <<0, 0>> THEN 20 ELSE IF c = <<2, 1>> THEN 10 ELSE 60]

\* the shapes (width, height) of the islands of the runs
IslandShapes == {<<3, 3>>, <<0, 3>>, <<3, 0>>, <<-1, 3>>}

\* an island that is not used in a run
IslandIdle ==
    /\ IslandNew(0, 0)
    /\ np_state = 0
    /\ perlin = [a |-> 1, b |-> 0]
    /\ generated = NotGenerated
    /\ player = [x |-> 0, y |-> 0]

----------------------------------------------------------------------------
(* Item (items.py), Inventory (inventory.py)                               *)

\* Item: the fields add_item and remove_item read (description and details
\* are carried along and never tested)
Item(type, name, stackable, stack_size) ==
    [type |-> type, name |-> name, stackable |-> stackable, stack_size |-> stack_size]

\* whether an entry is a stack that add_item merges the item into
SameStack(existing_item, item) ==
    /\ existing_item.type = item.type
    /\ existing_item.name = item.name
    /\ existing_item.stackable

\* add_item testing "len(self.items) > self.capacity"
add_item_over(its, cap, item) ==
    LET found == {k \in DOMAIN its : SameStack(its[k], item)}
    IN  IF item.stackable /\ found # {}
        THEN LET k == CHOOSE i \in found : \A j \in found : i <= j
             IN  [items |-> [its EXCEPT ![k].stack_size = @ + item.stack_size],
                  result |-> Returned(None)]
        ELSE IF Len(its) > cap
        THEN [items |-> its, result |-> Raised("InventoryFullError")]
        ELSE [items |-> Append(its, item), result |-> Returned(None)]

\* Inventory.add_item: the items afterwards and how the call ended
add_item(its, cap, item) ==
    LET found == {k \in DOMAIN its : SameStack(its[k], item)}
    IN  IF item.stackable /\ found # {}
        THEN LET k == CHOOSE i \in found : \A j \in found : i <= j
             IN  [items |-> [its EXCEPT ![k].stack_size = @ + item.stack_size],
                  result |-> Returned(None)]
        ELSE IF Len(its) >= cap
        THEN [items |-> its, result |-> Raised("InventoryFullError")]
        ELSE [items |-> Append(its, item), result |-> Returned(None)]

\* list.pop(index), index from 0
Pop(its, index) ==
    [k \in 1 .. (Len(its) - 1) |-> IF k <= index THEN its[k] ELSE its[k + 1]]

\* Inventory.remove_item: the items afterwards and the value returned (a list
\* of one Item, or the empty list for None)
remove_item(its, index, count) ==
    IF 0 <= index /\ index < Len(its)
    THEN LET item == its[index + 1]
         IN  IF item.stackable /\ item.stack_size > count
             THEN [items |-> [its EXCEPT ![index + 1].stack_size = @ - count],
                   result |-> Returned(<<Item(item.type, item.name, TRUE, count)>>)]
             ELSE [items |-> Pop(its, index), result |-> Returned(<<item>>)]
    ELSE [items |-> its, result |-> Returned(<<>>)]

\* largest capacity of an inventory of the runs, and largest stack followed
MaxCapacity == 2
MaxStack == 3

\* the items handed to add_item: shells of two names in stacks of one or two,
\* a message bottle, and a shell built with stackable = False
ItemPool ==
    {Item("SHELL", n, TRUE, k) : n \in {"Spiral Shell", "Conch Shell"}, k \in 1 .. 2}
        \cup {Item("MESSAGE_BOTTLE", "Sealed Message Bottle", FALSE, 1),
              Item("SHELL", "Spiral Shell", FALSE, 1)}

\* the counts handed to remove_item
Counts == 0 .. 2

AddItem(item) ==
    LET r == add_item(items, capacity, item)
    IN  /\ \A k \in DOMAIN r.items : r.items[k].stack_size <= MaxStack
        /\ items' = r.items
        /\ call' = [op |-> "add_item", item |-> item]
        /\ ret' = r.result
        /\ UNCHANGED <<capacity, logVars, engineVars, engineObs>>
        /\ UNCHANGED <<chosen, returned, locations, timeVars, weatherVars, weatherObs,
                       genVars, islandVars>>

RemoveItem(index, count) ==
    LET r == remove_item(items, index, count)
    IN  /\ items' = r.items
        /\ call' = [op |-> "remove_item", index |-> index, count |-> count]
        /\ ret' = r.result
        /\ UNCHANGED <<capacity, logVars, engineVars, engineObs>>
        /\ UNCHANGED <<chosen, returned, locations, timeVars, weatherVars, weatherObs,
                       genVars, islandVars>>

----------------------------------------------------------------------------
(* MessageLog (message_log.py)                                             *)

MessageCategory == {"DISCOVERY", "INTERACTION", "SYSTEM", "WEATHER", "TIME"}

\* Message without its timestamp (datetime.now(), read by nothing modelled);
\* text is the string as its pieces
Message(text, category, details) ==
    [text |-> text, category |-> category, details |-> details]

\* add_message evicting with pop() (the newest) instead of pop(0)
add_message_newest(msgs, max, message) ==
    LET appended == Append(msgs, message)
    IN  IF Len(appended) > max THEN SubSeq(appended, 1, Len(appended) - 1) ELSE appended

\* MessageLog.add_message: append, then pop(0) when over max_messages
add_message(msgs, max, message) ==
    LET appended == Append(msgs, message)
    IN  IF Len(appended) > max THEN Tail(appended) ELSE appended

\* the slice s[start:] of a Python list
SliceFrom(s, start) ==
    LET first == IF start < 0 THEN Max(Len(s) + start, 0) ELSE Min(start, Len(s))
    IN  SubSeq(s, first + 1, Len(s))

\* MessageLog.get_recent_messages: self.messages[-count:]
get_recent_messages(msgs, count) == SliceFrom(msgs, -count)

\* largest max_messages of a run, and number of add_message calls followed
MaxMessages == 3
MaxAdded == 5

\* the messages of the runs
MessagePool ==
    {Message(<<"Welcome to Mediterranean Wanderer!">>, "SYSTEM", "Use arrow keys"),
     Message(<<"Time changes to ", "Day">>, "TIME", None),
     Message(<<"Weather changes to ", "Light Rain">>, "WEATHER", None)}

\* the counts handed to get_recent_messages
RecentCounts == 0 .. (MaxMessages + 1)

AddMessage(message) ==
    /\ Len(added) < MaxAdded
    /\ messages' = add_message(messages, max_messages, message)
    /\ added' = Append(added, message)
    /\ call' = [op |-> "add_message", message |-> message]
    /\ ret' = Returned(None)
    /\ UNCHANGED <<max_messages, inventoryVars, engineVars, engineObs>>
    /\ UNCHANGED <<chosen, returned, locations, timeVars, weatherVars, weatherObs,
                   genVars, islandVars>>

GetRecentMessages(count) ==
    /\ call' = [op |-> "get_recent_messages", count |-> count]
    /\ ret' = Returned(get_recent_messages(messages, count))
    /\ UNCHANGED <<logVars, inventoryVars, engineVars, engineObs>>
    /\ UNCHANGED <<chosen, returned, locations, timeVars, weatherVars, weatherObs,
                   genVars, islandVars>>

\* the defaults of Inventory(capacity) and MessageLog(max_messages)
DefaultCapacity == 20
DefaultMaxMessages == 50

\* Inventory.__init__
InventoryNew(cap) == items = <<>> /\ capacity = cap

\* MessageLog.__init__
LogNew(max) == messages = <<>> /\ max_messages = max /\ added = <<>>

\* no Engine under construction or running
EngineIdle ==
    /\ show_inventory = FALSE
    /\ last_weather_desc = "Sunny"
    /\ epc = "idle"
    /\ has_log = FALSE
    /\ events = 0

\* an inventory, a message log and an engine that are not used in a run
PlayIdle == InventoryNew(DefaultCapacity) /\ LogNew(DefaultMaxMessages) /\ EngineIdle

----------------------------------------------------------------------------
(* ItemFactory (items.py), Player.handle_input / add_to_inventory           *)
(* (player.py), Engine (engine.py)                                         *)

\* ItemFactory.ITEMS: the names and the stackable flag of each item type
ITEMS ==
    [SHELL |-> [names |-> <<"Spiral Shell", "Conch Shell", "Scallop Shell",
                           "Pearl Oyster", "Nautilus Shell">>, stackable |-> TRUE],
     STONE |-> [names |-> <<"Smooth Pebble", "Sea Glass", "Marble Fragment",
                           "Quartz Crystal", "Beach Stone">>, stackable |-> TRUE],
     MESSAGE_BOTTLE |-> [names |-> <<"Sealed Message Bottle", "Ancient Message Bottle",
                                    "Weathered Message Bottle", "Crystal Clear Bottle",
                                    "Green Glass Bottle">>, stackable |-> FALSE],
     FLOWER |-> [names |-> <<"Mediterranean Daisy", "Wild Cyclamen", "Sea Lavender",
                            "Rock Rose", "Wild Orchid">>, stackable |-> TRUE],
     HERB |-> [names |-> <<"Wild Thyme", "Bay Leaf", "Rosemary Sprig", "Sage Leaf",
                          "Wild Oregano">>, stackable |-> TRUE],
     FRUIT |-> [names |-> <<"Wild Fig", "Olive", "Lemon", "Orange", "Pomegranate">>,
                stackable |-> TRUE]]

\* ItemFactory.create_item(item_type) with name_idx drawn as idx (from 1)
create_item(item_type, idx) ==
    Item(item_type, ITEMS[item_type].names[idx], ITEMS[item_type].stackable, 1)

\* the name_idx draws followed in the runs
NameIndices == {1, 2}

\* item.description, which create_item takes from the same index as the name
ItemDescription(item) == <<"description of ", item.name>>

\* location_items of _generate_item_for_location, probabilities in hundredths
location_items ==
    [BEACH |-> <<<<"SHELL", 70>>, <<"STONE", 30>>>>,
     GROVE |-> <<<<"HERB", 40>>, <<"FRUIT", 60>>>>,
     RUINS |-> <<<<"STONE", 80>>, <<"MESSAGE_BOTTLE", 20>>>>,
     VIEWPOINT |-> <<<<"FLOWER", 100>>>>,
     VILLAGE |-> <<<<"FRUIT", 50>>, <<"HERB", 50>>>>]

\* the loop over location_items[location_type]: the first type whose
\* cumulative probability reaches the roll, None when there is none
RECURSIVE SelectLoop(_, _, _, _)
SelectLoop(entries, i, cumulative_prob, roll) ==
    IF i > Len(entries) THEN None
    ELSE IF roll <= cumulative_prob + entries[i][2] THEN entries[i][1]
    ELSE SelectLoop(entries, i + 1, cumulative_prob + entries[i][2], roll)

\* the item type _generate_item_for_location selects with the roll
selected_type(location_type, roll) ==
    IF location_type \notin DOMAIN location_items THEN None
    ELSE SelectLoop(location_items[location_type], 1, 0, roll)

\* TimeSystem.get_time_description: minutes / minutes_per_day against 0.25,
\* 0.35, 0.708 and 0.792
get_time_description(m) ==
    IF 1000 * m < 250 * minutes_per_day THEN "Night"
    ELSE IF 1000 * m < 350 * minutes_per_day THEN "Dawn"
    ELSE IF 1000 * m < 708 * minutes_per_day THEN "Day"
    ELSE IF 1000 * m < 792 * minutes_per_day THEN "Dusk"
    ELSE "Night"

\* WeatherSystem.get_weather_description
get_weather_description(w) ==
    [SUNNY |-> "Sunny", PARTLY_CLOUDY |-> "Partly Cloudy", LIGHT_RAIN |-> "Light Rain"][w]

\* movement_keys of handle_input: arrow keys and vi keys
movement_keys ==
    [UP |-> <<0, -1>>, DOWN |-> <<0, 1>>, LEFT |-> <<-1, 0>>, RIGHT |-> <<1, 0>>,
     k |-> <<0, -1>>, j |-> <<0, 1>>, h |-> <<-1, 0>>, l |-> <<1, 0>>]

InteractKeys == {"SPACE", "RETURN"}

\* the keys pressed in the runs; "a" is no action key
Keys == {"UP", "j", "LEFT", "RIGHT", "SPACE", "i", "a", "ESCAPE"}

WelcomeMessage ==
    Message(<<"Welcome to Mediterranean Wanderer!">>, "SYSTEM",
            "Use arrow keys or vi keys (h,j,k,l) to move.")

WarningMessage ==
    Message(<<"Warning: No suitable starting position found.">>, "SYSTEM",
            "Starting at map center. You may be in water.")

\* message_log.add_message for each message of a list, in order
RECURSIVE AddAll(_, _, _)
AddAll(msgs, max, new) ==
    IF new = <<>> THEN msgs
    ELSE AddAll(add_message(msgs, max, Head(new)), max, Tail(new))

\* "0 <= x < screen_width and 0 <= y < screen_height and get_tile(x, y) >= 0.3"
Suitable(x, y) ==
    /\ 0 <= x /\ x < island_width
    /\ 0 <= y /\ y < island_height
    /\ get_tile(x, y).raised = None
    /\ get_tile(x, y).value >= 30

\* the first element of a set of pairs <<a, b>> in the order of "for b: for a"
FirstInScan(S) ==
    CHOOSE d \in S : \A e \in S : d[2] < e[2] \/ (d[2] = e[2] /\ d[1] <= e[1])

\* the while loop of _initialize_player from the given radius on: the first
\* suitable position of the squares around the centre, <<>> when there is none
RECURSIVE SearchSquares(_, _, _, _)
SearchSquares(center_x, center_y, radius, max_radius) ==
    IF radius > max_radius THEN <<>>
    ELSE LET S == {d \in ((-radius) .. radius) \X ((-radius) .. radius) :
                      Suitable(center_x + d[1], center_y + d[2])}
         IN  IF S # {}
             THEN <<center_x + FirstInScan(S)[1], center_y + FirstInScan(S)[2]>>
             ELSE SearchSquares(center_x, center_y, radius + 1, max_radius)

\* _initialize_player up to its fallback: the position found, or the centre
\* and found = FALSE when no position is suitable
initialize_player ==
    LET center_x == island_width \div 2
        center_y == island_height \div 2
        max_radius == Max(island_width, island_height) \div 2
        near == SearchSquares(center_x, center_y, 0, max_radius)
        any == {c \in IslandCells(island_width, island_height) : Suitable(c[1], c[2])}
    IN  IF near # <<>> THEN [found |-> TRUE, x |-> near[1], y |-> near[2]]
        ELSE IF any # {}
        THEN [found |-> TRUE, x |-> FirstInScan(any)[1], y |-> FirstInScan(any)[2]]
        ELSE [found |-> FALSE, x |-> center_x, y |-> center_y]

\* the (screen_width, screen_height) of the engines constructed in the runs
EngineShapes == {<<1, 1>>, <<3, 3>>}

\* the draws of _get_next_duration followed in the engine runs
EngineDurations == {MIN_WEATHER_DURATION, MAX_WEATHER_DURATION}

\* the variables neither the constructor after the island nor a key event
\* writes
engineFrame ==
    <<genVars, island_width, island_height, moisture, biomes, worldObs, chosen,
      returned, initial_weather, further, changes, capacity, max_messages>>

\* Engine.__init__, lines 36-46: Island(screen_width, screen_height) and
\* generate() with no seed
EngineIsland ==
    /\ epc = "new"
    /\ LET w == island_width
           h == island_height
       IN  IF w < 0 \/ h < 0
           THEN /\ ret' = Raised("ValueError")
                /\ epc' = "failed"
                /\ np_state' = NextState(np_state)
                /\ UNCHANGED <<island_terrain, moisture, biomes>>
           ELSE LET g == Generated(RandInt(np_state), NextState(np_state), w, h)
                IN  /\ island_terrain' = Grid(g.terrain)
                    /\ moisture' = Grid(g.moisture)
                    /\ biomes' = Grid(g.biomes)
                    /\ np_state' = g.state
                    /\ ret' = ret
                    /\ epc' = "locations"
    /\ call' = [op |-> "Engine"]
    /\ UNCHANGED <<island_width, island_height, worldObs, playerVars, locations>>
    /\ UNCHANGED <<genVars, chosen, returned, timeVars, weatherVars, weatherObs>>
    /\ UNCHANGED <<inventoryVars, logVars, show_inventory, last_weather_desc, has_log,
                   engineObs>>

\* Engine.__init__, lines 48-55: LocationSystem(terrain).generate_locations()
\* through its exits before the placement loop (locations.py:107-130); a call
\* that goes on into the loop leaves the constructor inside it
EngineLocations ==
    /\ epc = "locations"
    /\ LET terr == island_terrain.at
           valid == {c \in IslandCells(island_width, island_height) :
                        terr[c] >= WATER_THRESHOLD}
       IN  IF valid = {}
           THEN locations' = <<>> /\ epc' = "player"
           ELSE IF Cardinality(valid) < 10
           THEN \E c \in valid :
                   IF valid_types(terr[c]) # {}
                   THEN /\ \E t \in valid_types(terr[c]) :
                           \E n \in GeneratedNames(t), d \in GeneratedDescriptions(t) :
                              locations' = <<Location(c[1], c[2], t, n, d)>>
                        /\ epc' = "player"
                   ELSE UNCHANGED locations /\ epc' = "placement"
           ELSE UNCHANGED locations /\ epc' = "placement"
    /\ UNCHANGED <<call, ret, island_terrain, np_state, playerVars>>
    /\ UNCHANGED <<timeVars, weatherVars, updates, inventoryVars, logVars,
                   show_inventory, last_weather_desc, has_log, engineObs>>
    /\ UNCHANGED engineFrame

\* Engine.__init__, line 58: self.player = self._initialize_player().  The
\* fallback reads self.message_log, an attribute __init__ assigns at line 71
EnginePlayer ==
    /\ epc = "player"
    /\ LET r == initialize_player
       IN  IF r.found
           THEN /\ player' = [x |-> r.x, y |-> r.y]
                /\ items' = <<>>
                /\ epc' = "systems"
                /\ UNCHANGED <<ret, messages, added>>
           ELSE IF has_log
           THEN /\ messages' = add_message(messages, max_messages, WarningMessage)
                /\ added' = Append(added, WarningMessage)
                /\ player' = [x |-> r.x, y |-> r.y]
                /\ items' = <<>>
                /\ epc' = "systems"
                /\ UNCHANGED ret
           ELSE /\ ret' = Raised("AttributeError")
                /\ epc' = "failed"
                /\ UNCHANGED <<player, items, messages, added>>
    /\ UNCHANGED <<call, island_terrain, np_state, locations>>
    /\ UNCHANGED <<timeVars, weatherVars, updates, show_inventory, last_weather_desc,
                   has_log, engineObs>>
    /\ UNCHANGED engineFrame

\* Engine.__init__, lines 60-81: TimeSystem(), WeatherSystem(),
\* InteractionSystem, MessageLog(), show_inventory and the welcome message
EngineSystems ==
    /\ epc = "systems"
    /\ minutes' = 360 /\ day' = 1
    /\ current_weather' = "SUNNY"
    /\ next_weather' = None
    /\ transition_minutes' = 0
    /\ minutes_until_change' \in EngineDurations
    /\ last_weather_desc' = get_weather_description("SUNNY")
    /\ has_log' = TRUE
    /\ messages' = add_message(<<>>, max_messages, WelcomeMessage)
    /\ added' = Append(added, WelcomeMessage)
    /\ show_inventory' = FALSE
    /\ epc' = "done"
    /\ ret' = Returned(None)
    /\ UNCHANGED <<call, island_terrain, np_state, locations, playerVars, items,
                   updates, engineObs>>
    /\ UNCHANGED engineFrame

\* engine.island.terrain = np.full(..., h) on a freshly constructed engine
\* (test_initialize_player_normal, test_initialize_player_fallback)
AssignTerrain(h) ==
    /\ epc = "done"
    /\ call.op = "Engine"
    /\ island_terrain' = Grid([c \in IslandCells(island_width, island_height) |-> h])
    /\ call' = [op |-> "island.terrain =", x |-> h]
    /\ ret' = Returned(None)
    /\ UNCHANGED <<np_state, locations, playerVars, timeVars, weatherVars, updates,
                   inventoryVars, messages, added, engineVars, engineObs>>
    /\ UNCHANGED engineFrame

\* engine._initialize_player() called by the same tests once the terrain is
\* assigned; the Player it returns is not assigned to the engine
InitializePlayer ==
    /\ epc = "done"
    /\ call.op = "island.terrain ="
    /\ LET r == initialize_player
       IN  /\ IF r.found
              THEN UNCHANGED <<messages, added>>
              ELSE /\ messages' = add_message(messages, max_messages, WarningMessage)
                   /\ added' = Append(added, WarningMessage)
           /\ ret' = Returned([x |-> r.x, y |-> r.y])
    /\ call' = [op |-> "_initialize_player", x |-> 0]
    /\ UNCHANGED <<island_terrain, np_state, locations, playerVars, timeVars,
                   weatherVars, updates, inventoryVars, engineVars, engineObs>>
    /\ UNCHANGED engineFrame

\* number of key events followed in a run
MaxEvents == 3

\* a key event that writes nothing of the game state
Quiet ==
    UNCHANGED <<player, locations, timeVars, weatherVars, updates, np_state, items,
                messages, added, last_weather_desc, island_terrain, has_log>>

\* what every handled key event records
Handled(key) ==
    /\ epc = "done"
    /\ events < MaxEvents
    /\ events' = events + 1
    /\ call' = [op |-> "key", key |-> key, shown |-> show_inventory]
    /\ UNCHANGED engineFrame

\* Engine.update, lines 168-172: Quit or ESCAPE raises SystemExit
KeyEscape ==
    /\ Handled("ESCAPE")
    /\ ret' = Raised("SystemExit")
    /\ epc' = "exit"
    /\ UNCHANGED show_inventory
    /\ Quiet

\* Engine.update, lines 175-178: a key while the inventory is shown
KeyWhileInventory(key) ==
    /\ show_inventory
    /\ key # "ESCAPE"
    /\ Handled(key)
    /\ show_inventory' = IF key = "i" THEN FALSE ELSE show_inventory
    /\ ret' = Returned(None)
    /\ UNCHANGED epc
    /\ Quiet

\* the test "elif result" read as "elif result is not None"
is_true_or_false(result) == TRUE

\* the test "elif result" on the bool a move returns
is_true(result) == result = TRUE

\* the messages of lines 215-220 for the indices check_discoveries returned
DiscoveryMessages(locs, discovered) ==
    [k \in 1 .. Len(discovered) |->
        Message(DiscoveredMessage(locs[discovered[k]].name), "DISCOVERY",
                locs[discovered[k]].description)]

\* Engine.update, lines 181 and 210-243: a movement key.  handle_input calls
\* move; a move that succeeded is followed by check_discoveries, advance(),
\* weather.update() and the messages of what changed
KeyMove(key) ==
    /\ ~show_inventory
    /\ key \in DOMAIN movement_keys
    /\ Handled(key)
    /\ LET r == move(player, movement_keys[key][1], movement_keys[key][2])
       IN  IF r.result.raised # None
           THEN ret' = r.result /\ Quiet
           ELSE IF ~is_true(r.result.value)
           THEN ret' = Returned(None) /\ Quiet
           ELSE LET c == CheckLoop(1, r.player.x, r.player.y,
                                   [locs |-> locations, discovered |-> <<>>])
                    found == DiscoveryMessages(locations, c.discovered)
                    old_time_desc == get_time_description(minutes)
                IN  /\ player' = r.player
                    /\ locations' = c.locs
                    /\ TimeAdvance
                    /\ WeatherUpdate
                    /\ (is_transitioning /\ next_weather' = None) =>
                          minutes_until_change' \in EngineDurations
                    /\ updates' = updates + 1
                    /\ LET new_time_desc == get_time_description(minutes')
                           new_weather_desc == get_weather_description(current_weather')
                           timed == IF new_time_desc # old_time_desc
                                    THEN <<Message(<<"Time changes to ", new_time_desc>>,
                                                   "TIME", None)>>
                                    ELSE <<>>
                           weathered ==
                               IF new_weather_desc # last_weather_desc
                               THEN <<Message(<<"Weather changes to ", new_weather_desc>>,
                                              "WEATHER", None)>>
                               ELSE <<>>
                       IN  /\ messages' = AddAll(messages, max_messages,
                                                 found \o timed \o weathered)
                           /\ added' = added \o found \o timed \o weathered
                           /\ last_weather_desc' = new_weather_desc
                    /\ ret' = Returned(None)
                    /\ UNCHANGED <<np_state, items, island_terrain, has_log>>
    /\ UNCHANGED <<show_inventory, epc>>

\* Engine.update, lines 185-207: an interaction key.  try_interact at the
\* player's position; on success its message, then an item for the type of
\* the location and, when the inventory took it, the message of the find
KeyInteract(key) ==
    /\ ~show_inventory
    /\ key \in InteractKeys
    /\ Handled(key)
    /\ LET r == try_interact(locations, player.x, player.y)
           inter_result == r.result
       IN  /\ locations' = r.locs
           /\ IF inter_result.success
              THEN LET said == Message(inter_result.message, "INTERACTION",
                                       inter_result.details.description)
                       roll == RandomValue(np_state)
                       type == selected_type(inter_result.details.type, roll)
                   IN  /\ np_state' = NextState(np_state)
                       /\ IF type = None
                          THEN /\ UNCHANGED items
                               /\ messages' = add_message(messages, max_messages, said)
                               /\ added' = Append(added, said)
                          ELSE \E idx \in NameIndices :
                                  LET item == create_item(type, idx)
                                      a == add_item(items, capacity, item)
                                      got == IF a.result.raised = None
                                             THEN <<Message(<<"Found ", item.name, "!">>,
                                                            "INTERACTION",
                                                            ItemDescription(item))>>
                                             ELSE <<>>
                                  IN  /\ items' = a.items
                                      /\ messages' = AddAll(messages, max_messages,
                                                            <<said>> \o got)
                                      /\ added' = added \o <<said>> \o got
              ELSE LET said == Message(inter_result.message, "SYSTEM", None)
                   IN  /\ messages' = add_message(messages, max_messages, said)
                       /\ added' = Append(added, said)
                       /\ UNCHANGED <<np_state, items>>
    /\ ret' = Returned(None)
    /\ UNCHANGED <<player, timeVars, weatherVars, updates, last_weather_desc,
                   island_terrain, has_log, show_inventory, epc>>

\* Engine.update, lines 208-209: the inventory key
KeyInventory ==
    /\ ~show_inventory
    /\ Handled("i")
    /\ show_inventory' = TRUE
    /\ ret' = Returned(None)
    /\ UNCHANGED epc
    /\ Quiet

\* Engine.update: handle_input returned None, no action key
KeyOther(key) ==
    /\ ~show_inventory
    /\ key \notin DOMAIN movement_keys \cup InteractKeys \cup {"i", "ESCAPE"}
    /\ Handled(key)
    /\ ret' = Returned(None)
    /\ UNCHANGED <<show_inventory, epc>>
    /\ Quiet

----------------------------------------------------------------------------
(* Runs                                                                    *)

\* test_weather_transition: one update(), observed from the update that starts
\* a transition.  further = -1 until a transition has started, then the number
\* of update() calls made since (it stops counting past TRANSITION_DURATION).
WeatherStep ==
    /\ WeatherUpdate
    /\ IF ~is_transitioning /\ next_weather' # None
       THEN further' = 0 /\ initial_weather' = current_weather
       ELSE /\ further' = IF further = -1 THEN -1
                           ELSE Min(further + 1, TRANSITION_DURATION + 1)
            /\ UNCHANGED initial_weather
    /\ UNCHANGED <<updates, changes, timeVars, locations, locObs, genVars, islandVars, playVars>>

\* test_weather_change_probability: range(1440) update() calls, counting the
\* updates after which current_weather differs from the one before
DayUpdates == 1440

WeatherDayStep ==
    /\ updates < DayUpdates
    /\ WeatherUpdate
    /\ updates' = updates + 1
    /\ changes' = IF current_weather' # current_weather THEN changes + 1 ELSE changes
    /\ UNCHANGED <<initial_weather, further, timeVars, locations, locObs, genVars,
                   islandVars, playVars>>

ObsInit == initial_weather = "SUNNY" /\ further = -1 /\ updates = 0 /\ changes = 0

----------------------------------------------------------------------------
(* Specifications                                                          *)

TimeInit ==
    /\ minutes \in 0 .. (minutes_per_day - 1)
    /\ day = 1
    /\ WeatherFresh /\ minutes_until_change = MIN_WEATHER_DURATION
    /\ ObsInit
    /\ NoLocations
    /\ GenIdle(NoTerrain)
    /\ IslandIdle
    /\ PlayIdle

TimeNext ==
    TimeAdvance /\ UNCHANGED <<weatherVars, weatherObs, locations, locObs, genVars, islandVars, playVars>>

SpecTime == TimeInit /\ [][TimeNext]_vars

WeatherInit ==
    /\ WeatherFresh /\ ObsInit /\ TimeDefault /\ NoLocations /\ GenIdle(NoTerrain)
    /\ IslandIdle
    /\ PlayIdle

WeatherNext == WeatherStep

SpecWeather == WeatherInit /\ [][WeatherNext]_vars

WeatherDayNext == WeatherDayStep

SpecWeatherDay == WeatherInit /\ [][WeatherDayNext]_vars

\* any list of up to NumLocs undiscovered locations on LocCells (two of them
\* may share a cell), named in pool order
LocInit ==
    /\ \E n \in 0 .. NumLocs :
         /\ \E cells \in [1 .. n -> LocCells] :
               locations = [i \in 1 .. n |->
                   Location(cells[i][1], cells[i][2], "BEACH", LocNames[i],
                            BeachDescription)]
         /\ LocObsInit(n)
    /\ WeatherFresh /\ minutes_until_change = MIN_WEATHER_DURATION
    /\ ObsInit /\ TimeDefault
    /\ GenIdle(NoTerrain)
    /\ IslandIdle
    /\ PlayIdle

LocNext ==
    \/ \E x \in PlayerCoords, y \in PlayerCoords : CheckDiscoveries(x, y)
    \/ \E x \in PlayerCoords, y \in PlayerCoords : TryInteract(x, y)

SpecLoc == LocInit /\ [][LocNext]_vars

\* generate_locations on a terrain of Terrains, any requested counts, any held
\* list
GenInit ==
    /\ \E t \in Terrains : GenIdle(t)
    /\ locations \in HeldLists
    /\ LocObsInit(0)
    /\ IslandIdle
    /\ PlayIdle
    /\ WeatherFresh /\ minutes_until_change = MIN_WEATHER_DURATION
    /\ ObsInit /\ TimeDefault

GenNext ==
    \/ \E r \in Requests : GenerateLocations(r[1], r[2])
    \/ While
    \/ Attempt
    \/ EndPass
    \/ Commit

SpecGen == GenInit /\ [][GenNext]_vars

\* an island of one of IslandShapes, fresh from __init__; the generator in any
\* state, the noise any function of the family
WorldInit ==
    /\ \E sh \in IslandShapes : IslandNew(sh[1], sh[2])
    /\ np_state \in 0 .. (RngStates - 1)
    /\ perlin \in PerlinFamily
    /\ generated = NotGenerated
    /\ player = [x |-> 0, y |-> 0]
    /\ NoLocations
    /\ WeatherFresh /\ minutes_until_change = MIN_WEATHER_DURATION
    /\ ObsInit /\ TimeDefault
    /\ GenIdle(NoTerrain)
    /\ PlayIdle

WorldNext ==
    \/ \E seed \in Seeds \cup {NoSeed} : Generate(seed)
    \/ NumpyDraw

SpecWorld == WorldInit /\ [][WorldNext]_vars

\* a 3 x 3 island and a player on one of its cells.  The island is fresh from
\* __init__, or holds the terrain a test assigned, or was generated with a seed
IslandInit ==
    /\ island_width = 3 /\ island_height = 3
    /\ perlin \in PerlinFamily
    /\ \/ /\ island_terrain = NoGrid /\ moisture = NoGrid /\ biomes = NoGrid
          /\ np_state = 0
          /\ perlin = [a |-> 1, b |-> 0]
       \/ /\ island_terrain = Grid(TestTerrain) /\ moisture = NoGrid /\ biomes = NoGrid
          /\ np_state = 0
          /\ perlin = [a |-> 1, b |-> 0]
       \/ \E seed \in Seeds :
             LET g == Generated(seed, SeedState(seed, 0), 3, 3)
             IN  /\ island_terrain = Grid(g.terrain)
                 /\ moisture = Grid(g.moisture)
                 /\ biomes = Grid(g.biomes)
                 /\ np_state = g.state
    /\ generated = NotGenerated
    /\ \E c \in IslandCells(3, 3) : player = [x |-> c[1], y |-> c[2]]
    /\ NoLocations
    /\ WeatherFresh /\ minutes_until_change = MIN_WEATHER_DURATION
    /\ ObsInit /\ TimeDefault
    /\ GenIdle(NoTerrain)
    /\ PlayIdle

IslandNext ==
    \/ \E dx \in Deltas, dy \in Deltas : Move(dx, dy)
    \/ \E x \in QueryCoords, y \in QueryCoords : GetTile(x, y)
    \/ \E x \in QueryCoords, y \in QueryCoords : GetBiome(x, y)

SpecIsland == IslandInit /\ [][IslandNext]_vars

\* the components other than the inventory, the log and the engine, unused
CoreIdle ==
    /\ NoLocations
    /\ WeatherFresh /\ minutes_until_change = MIN_WEATHER_DURATION
    /\ ObsInit /\ TimeDefault
    /\ GenIdle(NoTerrain)
    /\ IslandIdle

\* an empty inventory of any capacity up to MaxCapacity
InventoryInit ==
    /\ \E cap \in 0 .. MaxCapacity : InventoryNew(cap)
    /\ LogNew(DefaultMaxMessages)
    /\ EngineIdle
    /\ CoreIdle

InventoryNext ==
    \/ \E item \in ItemPool : AddItem(item)
    \/ \E index \in (-1) .. MaxCapacity, count \in Counts : RemoveItem(index, count)

SpecInventory == InventoryInit /\ [][InventoryNext]_vars

\* an empty log of any max_messages up to MaxMessages
LogInit ==
    /\ \E max \in 0 .. MaxMessages : LogNew(max)
    /\ InventoryNew(DefaultCapacity)
    /\ EngineIdle
    /\ CoreIdle

LogNext ==
    \/ \E message \in MessagePool : AddMessage(message)
    \/ \E count \in RecentCounts : GetRecentMessages(count)

SpecLog == LogInit /\ [][LogNext]_vars

\* the noise functions of the construction runs
EnginePerlin == {f \in PerlinFamily : f.b \in {0, 3}}

\* Engine(screen_width, screen_height) about to be constructed: nothing of it
\* exists yet; numpy's generator is in any state
EngineNewInit ==
    /\ epc = "new"
    /\ has_log = FALSE
    /\ show_inventory = FALSE
    /\ last_weather_desc = "Sunny"
    /\ events = 0
    /\ \E sh \in EngineShapes : IslandNew(sh[1], sh[2])
    /\ np_state \in 0 .. (RngStates - 1)
    /\ perlin \in EnginePerlin
    /\ generated = NotGenerated
    /\ player = [x |-> 0, y |-> 0]
    /\ InventoryNew(DefaultCapacity)
    /\ LogNew(DefaultMaxMessages)
    /\ NoLocations
    /\ WeatherFresh /\ minutes_until_change = MIN_WEATHER_DURATION
    /\ ObsInit /\ TimeDefault
    /\ GenIdle(NoTerrain)

\* the heights the engine tests fill the terrain with
AssignedHeights == {10, 50}

EngineNewNext ==
    \/ EngineIsland
    \/ EngineLocations
    \/ EnginePlayer
    \/ EngineSystems
    \/ \E h \in AssignedHeights : AssignTerrain(h)
    \/ InitializePlayer

SpecEngineNew == EngineNewInit /\ [][EngineNewNext]_vars

\* the cells of the locations, and of the player, at the start of an update
\* run
EngineCells == {<<1, 1>>, <<1, 2>>}
EngineStarts == {<<1, 1>>, <<0, 0>>}

\* the clock at the start of an update run: the last minute of Dawn, the last
\* minute of the day
EngineMinutes == {503, 1439}

\* the weather at the start of an update run: fresh, one update before a
\* transition starts, one update before a transition completes
EngineWeather ==
    \/ /\ current_weather = "SUNNY"
       /\ next_weather = None
       /\ transition_minutes = 0
       /\ minutes_until_change \in {MIN_WEATHER_DURATION, 1}
    \/ /\ current_weather = "SUNNY"
       /\ next_weather = "LIGHT_RAIN"
       /\ transition_minutes = TRANSITION_DURATION - 1
       /\ minutes_until_change = 0

\* a constructed engine in play on the island of the player tests, with up to
\* two undiscovered locations assigned as the engine tests assign them
EngineInit ==
    /\ epc = "done"
    /\ has_log = TRUE
    /\ show_inventory = FALSE
    /\ events = 0
    /\ island_width = 3 /\ island_height = 3
    /\ perlin = [a |-> 1, b |-> 0]
    /\ LET g == Generated(0, 0, 3, 3)
       IN  /\ island_terrain = Grid(TestTerrain)
           /\ moisture = Grid(g.moisture)
           /\ biomes = Grid(g.biomes)
    /\ np_state = 2
    /\ generated = NotGenerated
    /\ \E c \in EngineStarts : player = [x |-> c[1], y |-> c[2]]
    /\ \E n \in 0 .. 2 :
         /\ \E cells \in [1 .. n -> EngineCells] :
               locations = [i \in 1 .. n |->
                   Location(cells[i][1], cells[i][2], "BEACH", LocNames[i],
                            BeachDescription)]
         /\ LocObsInit(n)
    /\ minutes \in EngineMinutes /\ day = 1
    /\ EngineWeather
    /\ last_weather_desc = get_weather_description(current_weather)
    /\ ObsInit
    /\ GenIdle(NoTerrain)
    /\ InventoryNew(DefaultCapacity)
    /\ messages = <<WelcomeMessage>>
    /\ max_messages = DefaultMaxMessages
    /\ added = <<WelcomeMessage>>

EngineNext ==
    \/ KeyEscape
    \/ \E key \in Keys : KeyWhileInventory(key)
    \/ \E key \in Keys : KeyMove(key)
    \/ \E key \in Keys : KeyInteract(key)
    \/ KeyInventory
    \/ \E key \in Keys : KeyOther(key)

SpecEngine == EngineInit /\ [][EngineNext]_vars

----------------------------------------------------------------------------
(* Properties                                                              *)

Indices == DOMAIN locations
Manhattan(loc, c) == Abs(c.x - loc.x) + Abs(c.y - loc.y)
AtCell(loc, c) == loc.x = c.x /\ loc.y = c.y
InRange(c) == {i \in Indices : Manhattan(locations[i], c) <= 1}
SetMin(S) == CHOOSE m \in S : \A n \in S : m <= n
FlagsOf(locs) == [i \in DOMAIN locs |-> locs[i].discovered]

\* the spacing levels of the outer loop: MIN_SPACING, then halved down to 2
SpacingLevels == <<10, 5, 2>>

\* no cell of the terrain can become a location: every cell is water or has a
\* height outside every range of LOCATION_PREFERENCES
NoSite == \A c \in Cells : terrain[c] < WATER_THRESHOLD \/ valid_types(terrain[c]) = {}

\* C1: generate_locations terminates on every terrain, also when the candidate
\* set built at spacing 2 is smaller than the adjusted minimum: its outer loop
\* makes at most one pass per spacing level (10, 5, 2), each of at most
\* max_attempts trials.  Stated for the terrains the claim names, on which no
\* draw can produce a candidate.
C1_BoundedPasses ==
    NoSite => (passes <= Len(SpacingLevels) /\ attempts <= max_attempts)

\* C2: over any sequence of check_discoveries and try_interact calls a
\* location's discovered flag, once True, is True in every later state.
C2_DiscoveredMonotonic ==
    [][/\ DOMAIN locations' = DOMAIN locations
       /\ \A i \in Indices : locations[i].discovered => locations'[i].discovered]_vars

\* a location discovered by an interaction lies in range of a later
\* check_discoveries call
C2_Witness ==
    /\ call.op = "check_discoveries"
    /\ \E i \in Indices :
         /\ locations[i].discovered
         /\ returned[i] = 0
         /\ InDiscoveryRange(locations[i], call.x, call.y)

\* C3: each location is in the result of check_discoveries at most once over
\* a whole run, and a check_discoveries call that follows one at the same
\* position returns the empty list.
C3_ReturnedAtMostOnce ==
    /\ [](\A i \in Indices : returned[i] <= 1)
    /\ [][(call.op = "check_discoveries" /\ call' = call) => ret' = <<>>]_vars

\* a location returned once is again in range of a check_discoveries call,
\* which returned nothing
C3_Witness ==
    /\ call.op = "check_discoveries"
    /\ ret = <<>>
    /\ \E i \in Indices :
         returned[i] = 1 /\ InDiscoveryRange(locations[i], call.x, call.y)

\* C4: check_discoveries(x, y) returns, in storage order, exactly the
\* locations undiscovered before the call with |loc.x - x| <= 3 and
\* |loc.y - y| <= 3, marks exactly those discovered and leaves the others.
C4_CheckDiscoveriesExact ==
    [][call'.op = "check_discoveries" =>
        LET c == call'
            New == {i \in Indices :
                      /\ ~locations[i].discovered
                      /\ Abs(locations[i].x - c.x) <= 3
                      /\ Abs(locations[i].y - c.y) <= 3}
        IN  /\ ret' = SelectSeq([i \in 1 .. Len(locations) |-> i], LAMBDA i : i \in New)
            /\ locations' = [i \in Indices |->
                               IF i \in New
                               THEN [locations[i] EXCEPT !.discovered = TRUE]
                               ELSE locations[i]]]_vars

\* check_discoveries returned a location 3 away on both axes (outside the
\* Euclidean and the Manhattan radius 3) and left one 4 away on an axis
C4_Witness ==
    /\ call.op = "check_discoveries"
    /\ \E k \in 1 .. Len(ret) :
         /\ Abs(locations[ret[k]].x - call.x) = 3
         /\ Abs(locations[ret[k]].y - call.y) = 3
    /\ \E i \in Indices :
         ~locations[i].discovered /\ Abs(locations[i].x - call.x) = 4

\* C5: try_interact with no location within Manhattan distance 1 returns
\* success False, the "Nothing interesting ..." message and no details, and
\* changes no discovered flag.
C5_NothingNearby ==
    [][(call'.op = "try_interact" /\ InRange(call') = {}) =>
        /\ ret' = [success |-> FALSE, message |-> NothingMessage, details |-> None]
        /\ FlagsOf(locations') = FlagsOf(locations)]_vars

\* try_interact failed next to an undiscovered diagonal neighbour
C5_Witness ==
    /\ call.op = "try_interact"
    /\ ret.success = FALSE
    /\ \E i \in Indices :
         /\ ~locations[i].discovered
         /\ Abs(locations[i].x - call.x) = 1
         /\ Abs(locations[i].y - call.y) = 1

C7_NearbyInOrder ==
    [][(/\ call'.op = "try_interact"
        /\ InRange(call') # {}
        /\ \A i \in Indices : ~AtCell(locations[i], call')) =>
        LET U == {i \in InRange(call') : ~locations[i].discovered}
        IN  IF U # {}
            THEN /\ chosen' = SetMin(U)
                 /\ locations' = [locations EXCEPT ![SetMin(U)].discovered = TRUE]
                 /\ ret'.success
                 /\ ret'.message = <<"Discovered ", locations[SetMin(U)].name, "!">>
            ELSE /\ chosen' = SetMin(InRange(call'))
                 /\ locations' = locations
                 /\ ret'.success
                 /\ ret'.message =
                      <<"Examining ", locations[SetMin(InRange(call'))].name, "...">>]_vars

\* try_interact passed over a discovered neighbour earlier in the list and
\* discovered the second location
C7_Witness ==
    /\ call.op = "try_interact"
    /\ chosen = 2
    /\ ret.message = <<"Discovered ", locations[2].name, "!">>
    /\ Manhattan(locations[1], call) = 1
    /\ Manhattan(locations[2], call) = 1

\* C8 as stated: from stable with minutes_until_change = 1 one update() starts
\* the transition, which is still running after fewer than TRANSITION_DURATION
\* further updates and is complete, on another category, after exactly
\* TRANSITION_DURATION.
C8_CompletesAfterDuration ==
    /\ (further \in 0 .. (TRANSITION_DURATION - 1)) => is_transitioning
    /\ (further = TRANSITION_DURATION) =>
          /\ ~is_transitioning
          /\ transition_minutes = 0
          /\ current_weather # initial_weather

\* C8 amended: from stable with minutes_until_change = 1 one update() starts
\* the transition; it is still running after fewer than TRANSITION_DURATION - 1
\* further updates and is complete, on another category, after exactly
\* TRANSITION_DURATION - 1 of them.
C8_CompletesOneEarlier ==
    /\ [][(~is_transitioning /\ minutes_until_change = 1) =>
            (next_weather' # None /\ transition_minutes' > 0)]_vars
    /\ [](/\ (further \in 0 .. (TRANSITION_DURATION - 2)) =>
               (is_transitioning /\ current_weather = initial_weather)
          /\ (further = TRANSITION_DURATION - 1) =>
               /\ ~is_transitioning
               /\ transition_minutes = 0
               /\ current_weather # initial_weather)

\* the transition has just completed
C8_Witness ==
    /\ further = TRANSITION_DURATION - 1
    /\ ~is_transitioning
    /\ current_weather # initial_weather

\* C9: over the 1440 update() calls of a day from a fresh system the number
\* of changes of current_weather is at most 6 and, at the end, at least 2.
C9_ChangesPerDay ==
    /\ changes <= 6
    /\ updates = DayUpdates => changes >= 2

\* a day with the fewest changes
C9_Witness == updates = DayUpdates /\ changes = 2

\* C10: with minutes_per_turn = 1 and 0 <= minutes <= 1439 at the start,
\* minutes stays in 0..1439; advance() from 1439 gives minutes 0 and day + 1,
\* any other advance() gives minutes + 1 and the same day; (day, minutes)
\* increases lexicographically.
C10_TimeAdvance ==
    /\ [](minutes \in 0 .. 1439)
    /\ [][/\ IF minutes = 1439
             THEN minutes' = 0 /\ day' = day + 1
             ELSE minutes' = minutes + 1 /\ day' = day
          /\ day' > day \/ (day' = day /\ minutes' > minutes)]_vars

\* a rollover has happened
C10_Witness == day = 2 /\ minutes = 0

\* squared Euclidean distance of two locations
Dist2(a, b) == (a.x - b.x) * (a.x - b.x) + (a.y - b.y) * (a.y - b.y)

\* every two distinct locations of a list are at least spacing apart
Spaced(locs, spacing) ==
    \A i, j \in DOMAIN locs : i # j => Dist2(locs[i], locs[j]) >= spacing * spacing

AllWater == \A c \in Cells : terrain[c] < WATER_THRESHOLD
OneValidCell == Cardinality(ValidCells(terrain)) = 1
NonDegenerate == Cardinality(ValidCells(terrain)) >= 10

\* C11: on a terrain whose every cell is below WATER_THRESHOLD
\* generate_locations returns at once with self.locations empty, for every
\* min_locations / max_locations and whatever list was held before: the call
\* goes from idle straight to done, never into the placement loop.
C11_AllWaterEmpty ==
    /\ [][(AllWater /\ pc = "idle") => (pc' = "done" /\ locations' = <<>>)]_vars
    /\ [](AllWater => (pc \in {"idle", "done"} /\ passes = 0 /\ attempts = 0))

\* generate_locations(2, 2) has returned on an all-water terrain
C11_Witness ==
    /\ AllWater
    /\ pc = "done"
    /\ min_locations = 2 /\ max_locations = 2
    /\ locations = <<>>

\* C12: on a terrain with exactly one cell of height >= WATER_THRESHOLD,
\* whatever that height, generate_locations returns exactly one location,
\* placed on that cell: the call never enters the placement loop and ends with
\* a one-element list.
C12_OneCellOneLocation ==
    (OneValidCell /\ pc # "idle") =>
        /\ pc = "done"
        /\ Len(locations) = 1
        /\ <<locations[1].x, locations[1].y>> \in ValidCells(terrain)

\* C13: on a terrain with 10 or more valid cells every two distinct locations
\* of the committed list are at least as far apart (Euclidean) as the spacing
\* level in effect in the pass that built the list (10, 5 or 2), and every
\* candidate set is built under one spacing level only.
C13_SpacingKept ==
    NonDegenerate =>
        /\ best_spacing \in {SpacingLevels[k] : k \in DOMAIN SpacingLevels}
        /\ Spaced(best_locations, best_spacing)
        /\ pc = "attempt" => Spaced(candidate_locations, current_spacing)
        /\ pc = "done" => Spaced(locations, best_spacing)

\* two locations committed from the pass at spacing 2, closer than the
\* spacing 5 of the pass before
C13_Witness ==
    /\ NonDegenerate
    /\ pc = "done"
    /\ Len(locations) = 2
    /\ best_spacing = 2
    /\ Dist2(locations[1], locations[2]) < 25

\* name and description stand at the same index of the pools of the type
PairedIndex(loc) ==
    \E k \in DOMAIN name_lists[loc.type] \cap DOMAIN descriptions[loc.type] :
        loc.name = name_lists[loc.type][k] /\ loc.description = descriptions[loc.type][k]

\* C14: every location created by generate_locations has its name and its
\* description from the same index of the pools of its type.
C14_PairedIndex ==
    /\ \A i \in DOMAIN candidate_locations : PairedIndex(candidate_locations[i])
    /\ pc = "done" => \A i \in DOMAIN locations : PairedIndex(locations[i])

\* the cells of the island's arrays
GridCells == IslandCells(island_width, island_height)

\* C15: after Island.generate the biome of every cell agrees with its height:
\* below 0.2 DEEP_WATER, from 0.2 below 0.3 SHALLOW_WATER, from 0.3 below 0.4
\* BEACH; RUINS only on cells with 0.4 < height < 0.7; above 0.75 always
\* ROCKY_CLIFF.
C15_BiomeFollowsHeight ==
    ~biomes.is_none =>
        \A c \in GridCells :
            LET hgt == island_terrain.at[c]
                biome == biomes.at[c]
            IN  /\ biome \in BiomeType
                /\ hgt < 20 => biome = "DEEP_WATER"
                /\ (20 <= hgt /\ hgt < 30) => biome = "SHALLOW_WATER"
                /\ (30 <= hgt /\ hgt < 40) => biome = "BEACH"
                /\ biome = "RUINS" => (40 < hgt /\ hgt < 70)
                /\ hgt > 75 => biome = "ROCKY_CLIFF"

\* an island with ruins on a suitable cell, a cliff and deep water
C15_Witness ==
    /\ ~biomes.is_none
    /\ \E c \in GridCells : biomes.at[c] = "RUINS"
    /\ \E c \in GridCells : island_terrain.at[c] > 75
    /\ \E c \in GridCells : island_terrain.at[c] < 20

\* C17: generation with width <= 0 or height <= 0 fails with an error and
\* never leaves the island holding (empty) terrain, moisture or biome arrays.
C17_BadDimensionsFail ==
    (island_width <= 0 \/ island_height <= 0) =>
        /\ island_terrain.is_none /\ moisture.is_none /\ biomes.is_none
        /\ call.op = "generate" => ret.raised # None

\* C18: a generate(seed) with an explicit seed produces the height and
\* moisture arrays of the first generate with that seed on the island,
\* whatever was drawn from np.random or generated before or in between.
C18_SeedDeterminism ==
    [][(/\ call'.op = "generate"
        /\ call'.seed # NoSeed
        /\ ret'.raised = None
        /\ generated[call'.seed].runs > 0) =>
            /\ island_terrain'.at = generated[call'.seed].terrain
            /\ moisture'.at = generated[call'.seed].moisture]_vars

\* a second generate with a seed, on an island with land cells
C18_Witness ==
    /\ call.op = "generate"
    /\ call.seed # NoSeed
    /\ generated[call.seed].runs = 2
    /\ GridCells # {}
    /\ \E c \in GridCells : island_terrain.at[c] >= 40

\* C19: after Island.generate every cell of the height map and of the
\* moisture map holds a value in [0.0, 1.0].
C19_MapsInUnitRange ==
    /\ ~island_terrain.is_none =>
          \A c \in GridCells : 0 <= island_terrain.at[c] /\ island_terrain.at[c] <= 100
    /\ ~moisture.is_none =>
          \A c \in GridCells : 0 <= moisture.at[c] /\ moisture.at[c] <= 100

\* an island with a cell at height 0.0 and a cell of moisture 0.9 or more
C19_Witness ==
    /\ ~island_terrain.is_none /\ ~moisture.is_none
    /\ \E c \in GridCells : island_terrain.at[c] = 0
    /\ \E c \in GridCells : moisture.at[c] >= 90

\* the height get_tile reports for a cell of the grid (0.0 while the island
\* has no terrain)
HeightAt(x, y) == IF island_terrain.is_none THEN 0 ELSE island_terrain.at[<<x, y>>]

\* the cell (x, y) is a cell of the island's grid
OnGrid(x, y) == x \in 0 .. (island_width - 1) /\ y \in 0 .. (island_height - 1)

\* C16: on an island that holds its arrays, get_tile(x, y) and get_biome(x, y)
\* fail with an error for every coordinate outside 0 <= x < width,
\* 0 <= y < height, negative ones included; they never return a value.
C16_OutOfBoundsFails ==
    (/\ call.op \in {"get_tile", "get_biome"}
     /\ ~island_terrain.is_none /\ ~biomes.is_none
     /\ ~OnGrid(call.x, call.y)) =>
        ret.raised # None

\* C20: the player stays on the grid; a move whose target is off the grid or
\* has height < 0.2 returns False and leaves the position, every other move
\* returns True and changes the position by exactly (dx, dy).
C20_MoveStaysOnGrid ==
    /\ [](OnGrid(player.x, player.y))
    /\ [][call'.op = "move" =>
            LET new_x == player.x + call'.x
                new_y == player.y + call'.y
                blocked == ~OnGrid(new_x, new_y) \/ HeightAt(new_x, new_y) < 20
            IN  /\ ret'.raised = None
                /\ IF blocked
                   THEN ret'.value = FALSE /\ player' = player
                   ELSE ret'.value = TRUE /\ player' = [x |-> new_x, y |-> new_y]]_vars

\* on an island with terrain a move from the cell of height 0.2 onto a cell of
\* deep water inside the grid was refused
C20_Witness ==
    /\ call.op = "move"
    /\ ret.raised = None /\ ret.value = FALSE
    /\ ~island_terrain.is_none
    /\ player = [x |-> 0, y |-> 0]
    /\ OnGrid(player.x + call.x, player.y + call.y)
    /\ HeightAt(player.x + call.x, player.y + call.y) < 20
    /\ HeightAt(0, 0) = 20

\* a terrain with some cell, and fewer than 10 cells, at or above
\* WATER_THRESHOLD
SmallArea ==
    /\ ValidCells(terrain) # {}
    /\ Cardinality(ValidCells(terrain)) < 10

\* C23: on a terrain with fewer than 10 cells of height >= 0.5
\* generate_locations makes its single placement at a valid cell and returns:
\* the call goes from idle straight to done and no pass of the spacing/retry
\* loop is ever started, whether or not the chosen cell matches a type.
C23_SmallAreaNeverLoops ==
    SmallArea => (pc \in {"idle", "done"} /\ passes = 0 /\ attempts = 0)

\* maxPossible of a terrain: max(1, floor(validCells / (MIN_SPACING / 2)^2))
MaxPossible ==
    Max(1, Cardinality(ValidCells(terrain))
               \div ((MIN_SPACING \div 2) * (MIN_SPACING \div 2)))

\* C24: when generate_locations(min_locations, max_locations) has returned on
\* a terrain with a valid cell and 1 <= min_locations <= max_locations, the
\* number of committed locations is at least min(min_locations, maxPossible),
\* at most min(max_locations, maxPossible), and at most max_locations.
C24_CountWithinRequest ==
    (/\ pc = "done"
     /\ ValidCells(terrain) # {}
     /\ 1 <= min_locations /\ min_locations <= max_locations) =>
        /\ Len(locations) >= Min(min_locations, MaxPossible)
        /\ Len(locations) <= Min(max_locations, MaxPossible)
        /\ Len(locations) <= max_locations

\* generate_locations(1, 2) has returned two locations on the land with two
\* beach cells, where maxPossible is 2
C24_Witness ==
    /\ pc = "done"
    /\ NonDegenerate
    /\ min_locations = 1 /\ max_locations = 2
    /\ MaxPossible >= 2
    /\ Len(locations) = 2

\* the height under a location fits the inclusive range of its type and is
\* not water
FitsType(loc) ==
    /\ <<loc.x, loc.y>> \in Cells
    /\ terrain[<<loc.x, loc.y>>] >= WATER_THRESHOLD
    /\ LOCATION_PREFERENCES[loc.type][1] <= terrain[<<loc.x, loc.y>>]
    /\ terrain[<<loc.x, loc.y>>] <= LOCATION_PREFERENCES[loc.type][2]

\* C25: every location committed by generate_locations, from the small-area
\* branch or from the loop, sits on a cell of height >= 0.5 within the
\* inclusive range of its type; so do the candidates on the way, and a cell
\* of height 0.30 or 0.95 never carries a location.
C25_LocationsFitType ==
    /\ pc = "done" =>
          \A k \in DOMAIN locations :
             /\ FitsType(locations[k])
             /\ terrain[<<locations[k].x, locations[k].y>>] \notin {30, 95}
    /\ pc # "idle" =>
          /\ \A k \in DOMAIN candidate_locations : FitsType(candidate_locations[k])
          /\ \A k \in DOMAIN best_locations : FitsType(best_locations[k])

\* a VILLAGE committed on a cell of height 0.70, the inclusive upper end of
\* the VILLAGE range
C25_Witness ==
    /\ pc = "done"
    /\ Len(locations) = 1
    /\ locations[1].type = "VILLAGE"
    /\ terrain[<<locations[1].x, locations[1].y>>] = LOCATION_PREFERENCES["VILLAGE"][2]

\* C26: in every state update() reaches from a fresh system a pending
\* next_weather differs from current_weather, transition_minutes is 0 exactly
\* when no transition is pending and within 1 .. TRANSITION_DURATION - 1
\* while one is; a transition short of its last minute only counts on; the
\* update that completes it makes the former next_weather current, clears
\* next_weather, resets transition_minutes and redraws minutes_until_change
\* within 180 .. 480.
C26_TransitionState ==
    /\ [](/\ next_weather # None => next_weather # current_weather
          /\ (transition_minutes = 0) <=> (next_weather = None)
          /\ next_weather # None =>
                transition_minutes \in 1 .. (TRANSITION_DURATION - 1))
    /\ [][/\ (next_weather # None /\ transition_minutes < TRANSITION_DURATION - 1) =>
                /\ next_weather' = next_weather
                /\ current_weather' = current_weather
                /\ transition_minutes' = transition_minutes + 1
          /\ (next_weather # None /\ transition_minutes = TRANSITION_DURATION - 1) =>
                /\ current_weather' = next_weather
                /\ next_weather' = None
                /\ transition_minutes' = 0
                /\ minutes_until_change' \in
                       MIN_WEATHER_DURATION .. MAX_WEATHER_DURATION]_vars

\* a transition to LIGHT_RAIN has just completed and the longest duration was
\* drawn
C26_Witness ==
    /\ further = TRANSITION_DURATION - 1
    /\ next_weather = None
    /\ transition_minutes = 0
    /\ current_weather = "LIGHT_RAIN"
    /\ minutes_until_change = MAX_WEATHER_DURATION

\* C21: the number of inventory entries never exceeds capacity.  add_item of
\* a stackable item that finds a stack of its type and name succeeds and
\* grows the first such stack without adding an entry, full inventory or not;
\* any other add_item on an inventory holding capacity entries raises
\* InventoryFullError and leaves the entries as they were, and below
\* capacity it appends the item.
C21_CapacityKept ==
    /\ [](Len(items) <= capacity)
    /\ [][call'.op = "add_item" =>
            LET item == call'.item
                stacks == {k \in DOMAIN items :
                              /\ items[k].type = item.type
                              /\ items[k].name = item.name
                              /\ items[k].stackable}
            IN  IF item.stackable /\ stacks # {}
                THEN /\ ret'.raised = None
                     /\ Len(items') = Len(items)
                     /\ \E k \in stacks :
                           items' = [items EXCEPT
                                        ![k].stack_size = @ + item.stack_size]
                ELSE IF Len(items) >= capacity
                THEN ret'.raised = "InventoryFullError" /\ items' = items
                ELSE ret'.raised = None /\ items' = Append(items, item)]_vars

\* an inventory of capacity 2 with two entries, into whose first entry a
\* stackable shell has just been merged
C21_Witness ==
    /\ capacity = 2 /\ Len(items) = 2
    /\ call.op = "add_item"
    /\ ret.raised = None
    /\ call.item.stackable
    /\ items[1].stackable
    /\ items[1].type = call.item.type /\ items[1].name = call.item.name
    /\ items[1].stack_size > call.item.stack_size
    /\ items[2].name # call.item.name

\* the last n elements of a sequence, all of it when it is shorter
Last(s, n) == SubSeq(s, Max(Len(s) - n, 0) + 1, Len(s))

\* C22: after any sequence of add_message calls the log holds at most
\* max_messages messages, and they are the most recently added ones, in the
\* order they were added.
C22_MostRecentKept ==
    /\ Len(messages) <= max_messages
    /\ messages = Last(added, max_messages)

\* five messages added to a log of three: the first two are gone
C22_Witness ==
    /\ max_messages = 3
    /\ Len(added) = 5
    /\ Len(messages) = 3
    /\ messages[1] = added[3]
    /\ added[1] # added[3]

\* C30: get_recent_messages(n), n >= 0, returns the min(n, len(messages))
\* most recently added messages in the order of the log (the empty list for
\* n = 0) and leaves the log as it was.
C30_RecentMessages ==
    [][(call'.op = "get_recent_messages" /\ call'.count >= 0) =>
          /\ ret'.raised = None
          /\ ret'.value = Last(messages, call'.count)
          /\ Len(ret'.value) = Min(call'.count, Len(messages))
          /\ messages' = messages]_vars

\* C29: Engine construction completes for every generated island, also one
\* with no tile of height >= 0.3, where _initialize_player logs its warning
\* and returns the map centre; nothing is written to the message log before
\* the message log exists.
C29_ConstructionCompletes ==
    /\ epc # "failed"
    /\ ~has_log => added = <<>>
    /\ (/\ epc = "systems"
        /\ \A c \in IslandCells(island_width, island_height) :
              HeightAt(c[1], c[2]) < 30) =>
          /\ player = [x |-> island_width \div 2, y |-> island_height \div 2]
          /\ \E k \in DOMAIN added : added[k] = WarningMessage

\* the move a movement key asks of the player
MoveOf(key) == move(player, movement_keys[key][1], movement_keys[key][2])

\* the key is handled as a move that succeeded
SuccessfulMove(key) ==
    /\ ~show_inventory
    /\ key \in DOMAIN movement_keys
    /\ MoveOf(key).result.raised = None
    /\ MoveOf(key).result.value = TRUE

\* the weather variables changed as one update() changes them
OneWeatherUpdate ==
    IF next_weather = None
    THEN /\ minutes_until_change' = minutes_until_change - 1
         /\ current_weather' = current_weather
         /\ transition_minutes' \in {0, 1}
    ELSE \/ /\ transition_minutes' = transition_minutes + 1
            /\ UNCHANGED <<current_weather, next_weather, minutes_until_change>>
         \/ /\ transition_minutes + 1 >= TRANSITION_DURATION
            /\ current_weather' = next_weather
            /\ next_weather' = None
            /\ transition_minutes' = 0

\* C27: a key event handled as a successful move advances the time by exactly
\* one turn and runs weather.update() exactly once, after check_discoveries
\* at the new position (its messages come first); a blocked move, an
\* interaction, an inventory toggle, an unrecognised key and any key while
\* the inventory is open leave time, weather, position and location flags
\* unchanged, except the one flag an interaction flips.
C27_MoveAdvancesTurn ==
    [][(call'.op = "key" /\ events' = events + 1) =>
          LET key == call'.key
              new == SubSeq(added', Len(added) + 1, Len(added'))
              flipped == {i \in DOMAIN locations :
                             locations'[i].discovered /\ ~locations[i].discovered}
          IN  /\ Len(added') >= Len(added)
              /\ SubSeq(added', 1, Len(added)) = added
              /\ DOMAIN locations' = DOMAIN locations
              /\ IF SuccessfulMove(key)
                 THEN LET target == MoveOf(key).player
                      IN  /\ player' = target
                          /\ minutes' + minutes_per_day * day' =
                                minutes + minutes_per_day * day + minutes_per_turn
                          /\ updates' = updates + 1
                          /\ OneWeatherUpdate
                          /\ locations' =
                                CheckLoop(1, target.x, target.y,
                                          [locs |-> locations,
                                           discovered |-> <<>>]).locs
                          /\ \A j \in DOMAIN new :
                                IF j <= Cardinality(flipped)
                                THEN new[j].category = "DISCOVERY"
                                ELSE new[j].category \in {"TIME", "WEATHER"}
                          /\ Len(new) >= Cardinality(flipped)
                 ELSE /\ UNCHANGED <<timeVars, weatherVars, updates, player>>
                      /\ \A i \in DOMAIN locations :
                            locations'[i] # locations[i] =>
                               /\ ~show_inventory
                               /\ key \in InteractKeys
                               /\ flipped = {i}
                               /\ locations'[i] =
                                     [locations[i] EXCEPT !.discovered = TRUE]]_vars

\* three key events of which one was a successful move: an interaction told
\* of a location, the move out of the last minute of Dawn discovered another
\* and changed the time of day, and the clock stands one turn on
C27_Witness ==
    /\ call.op = "key"
    /\ events = 3 /\ updates = 1
    /\ call.key \in DOMAIN movement_keys
    /\ minutes = 504 /\ day = 1
    /\ \E k \in DOMAIN added : added[k].category = "INTERACTION"
    /\ \E k \in DOMAIN added :
          /\ added[k].category = "DISCOVERY"
          /\ k < Len(added)
          /\ added[Len(added)].category = "TIME"

\* the messages that announce locations[i] as discovered
Announced(i) ==
    {k \in DOMAIN added :
        /\ added[k].category \in {"DISCOVERY", "INTERACTION"}
        /\ added[k].text = DiscoveredMessage(locations[i].name)}

\* C28: over any sequence of key events each location is announced as
\* discovered at most once: the messages "Discovered <name>!" logged for it,
\* DISCOVERY ones of the proximity checks and INTERACTION ones of try_interact
\* together, never number more than one.
C28_AnnouncedOnce ==
    \A i \in DOMAIN locations : Cardinality(Announced(i)) <= 1

\* one location announced by an interaction, the other by the move that
\* followed, and a second successful move that announced nothing
C28_Witness ==
    /\ call.op = "key"
    /\ events = 3 /\ updates = 2
    /\ call.key \in DOMAIN movement_keys
    /\ Len(locations) = 2
    /\ \E i, j \in DOMAIN locations :
          /\ i # j
          /\ \E k \in Announced(i) : added[k].category = "INTERACTION"
          /\ \E k \in Announced(j) : added[k].category = "DISCOVERY"
    /\ added[Len(added)].category # "DISCOVERY"

====
